---- MODULE Spec2Model ----
(***************************************************************************)
(* Scene synchronization core (TundraProtocolModule/SyncManager.cpp).      *)
(* One server "S" and the clients of Clients, each with a scene; the       *)
(* server keeps one sync state per connection, each client one sync state  *)
(* for its server connection.  Messages travel in order on one reliable    *)
(* channel per direction.                                                  *)
(***************************************************************************)
EXTENDS Integers, Sequences, FiniteSets, TLC

VARIABLES scene, st, conn, net, gen, types, allow, clock, prioritizer, mgr, ev

vars == <<scene, st, conn, net, gen, types, allow, clock, prioritizer, mgr, ev>>

-----------------------------------------------------------------------------
(* Bounds of the model.                                                    *)

MaxVal == 1
MaxClock == 2
MaxNet == 5
\* replicated (or unacked) entities a peer creates, components an application gives an entity
MaxEnts == 2
MaxComps == 1

-----------------------------------------------------------------------------
(* Identifier space (UniqueIdGenerator), with the low part of an id scaled *)
(* down to three bits: replicated 1..7, unacked 8..15, local from 16.      *)

LAST_REPLICATED_ID == 7
FIRST_UNACKED_ID == 8
FIRST_LOCAL_ID == 16

IsLocalId(id) == id >= FIRST_LOCAL_ID
IsUnackedId(id) == id >= FIRST_UNACKED_ID /\ id < FIRST_LOCAL_ID
\* id & LAST_REPLICATED_ID
MaskId(id) == id % FIRST_UNACKED_ID
\* id | FIRST_UNACKED_ID
OrUnacked(id) == IF (id \div FIRST_UNACKED_ID) % 2 = 1 THEN id ELSE id + FIRST_UNACKED_ID

Server == "S"
Clients == {"c1", "c2"}
Peers == {Server} \cup Clients
IsServer(p) == p = Server
\* the connections a peer holds: the server one per client, a client its server connection
ConnsOf(p) == IF IsServer(p) THEN Clients ELSE {Server}

Null == [null |-> TRUE]
Values == 0..MaxVal

\* AttributeChange::Type
Replicate == "Replicate"
LocalOnly == "LocalOnly"
Disconnected == "Disconnected"
ChangeKinds == {Replicate, LocalOnly, Disconnected}

\* protocol versions
ProtocolOriginal == 1
ProtocolHierarchicScene == 2
ProtocolCustomComponents == 3
ProtocolWebClientRigidBodyMessage == 4

\* EntityAction::ExecType bits
ExecLocal == 1
ExecServer == 2
ExecPeers == 4
HasBit(x, b) == (x \div b) % 2 = 1

-----------------------------------------------------------------------------
(* Finite maps.                                                            *)

\* v bound to a name in F
Bind(v, F(_)) == F(v)

EmptyMap == [x \in {} |-> 0]
Put(f, k, v) == [x \in (DOMAIN f) \cup {k} |-> IF x = k THEN v ELSE f[x]]
Del(f, k) == [x \in (DOMAIN f) \ {k} |-> f[x]]
Min(S) == CHOOSE x \in S : \A y \in S : x <= y
Max(S) == CHOOSE x \in S : \A y \in S : x >= y
\* the elements of a finite set of integers in increasing order (std::map iteration order)
RECURSIVE SortedSeq(_)
SortedSeq(S) == IF S = {} THEN <<>> ELSE <<Min(S)>> \o SortedSeq(S \ {Min(S)})
RECURSIVE RemoveAll(_, _)
RemoveAll(q, x) ==
    IF q = <<>> THEN <<>>
    ELSE IF Head(q) = x THEN RemoveAll(Tail(q), x) ELSE <<Head(q)>> \o RemoveAll(Tail(q), x)
RECURSIVE RemoveFirst(_, _)
RemoveFirst(q, x) ==
    IF q = <<>> THEN <<>>
    ELSE IF Head(q) = x THEN Tail(q) ELSE <<Head(q)>> \o RemoveFirst(Tail(q), x)
InSeq(q, x) == \E i \in 1..Len(q) : q[i] = x

-----------------------------------------------------------------------------
(* Component types.  Type 1: one static attribute.  Type 2: no static      *)
(* attribute, dynamic attributes allowed.  Type 3: one static attribute, a *)
(* type whose factory only clients have.  Type 20: EC_Placeable, attribute *)
(* 0 is the Transform.                                                     *)

PlaceableTypeId == 20
\* EC_RigidBody, and the indices of its linearVelocity and angularVelocity: bits 5 and 6
\* of the second byte of the dirty bits
RigidBodyTypeId == 23
LinearVelocityIndex == 13
AngularVelocityIndex == 14
ComponentTypes == {1, 2, 3, PlaceableTypeId, RigidBodyTypeId}
NumStaticAttributes(t) == IF t = 2 THEN 0 ELSE IF t = RigidBodyTypeId THEN AngularVelocityIndex + 1 ELSE 1
SupportsDynamicAttributes(t) == t = 2
\* the component factories registered at a peer
FactoryRegistered(p, t) == t \in ComponentTypes /\ (t = 3 => ~IsServer(p))

\* the types no peer has a factory for, which an application may describe
PlaceholderTypes == {5, 6, 7}

\* SceneAPI's placeholder component types of a peer, and the client's
\* componentTypesFromServer_
NewTypes == [placeholders |-> {}, fromServer |-> {}]

-----------------------------------------------------------------------------
(* Scene model: a scene maps entity ids to entities; an entity holds its   *)
(* temporary flag, parent id (0 = none) and a map of component id to       *)
(* component; a component holds its type and a map of attribute index to   *)
(* value.                                                                  *)

\* genR and genU are the entity's component id generators (replicated and unacked range)
NewEntity == [temporary |-> FALSE, parent |-> 0, comps |-> EmptyMap, genR |-> 0, genU |-> 0]
NewComponent(t) == [typeId |-> t, attrs |-> [i \in 0..(NumStaticAttributes(t) - 1) |-> 0]]

HasEntity(sc, e) == e \in DOMAIN sc
HasComp(sc, e, c) == HasEntity(sc, e) /\ c \in DOMAIN sc[e].comps
HasAttr(sc, e, c, i) == HasComp(sc, e, c) /\ i \in DOMAIN sc[e].comps[c].attrs
\* Entity::Parent(): the parent entity's id, 0 when unparented
ParentOf(sc, e) == IF sc[e].parent \in DOMAIN sc THEN sc[e].parent ELSE 0
IsDynamicAttr(comp, i) == i >= NumStaticAttributes(comp.typeId)
\* the first component of a type, 0 if none (Entity::GetComponent<T>)
CompOfType(ent, t) ==
    LET S == {c \in DOMAIN ent.comps : ent.comps[c].typeId = t}
    IN IF S = {} THEN 0 ELSE Min(S)

-----------------------------------------------------------------------------
(* Sync state of one connection (SceneSyncState, EntitySyncState,          *)
(* ComponentSyncState).  Dirty queues hold ids in queue order.             *)

NewCompState ==
    [isNew |-> TRUE, removed |-> FALSE, isInQueue |-> FALSE,
     dirtyAttributes |-> {}, newAndRemovedAttributes |-> EmptyMap]

NewEntState ==
    [isNew |-> TRUE, removed |-> FALSE, isInQueue |-> FALSE,
     hasPropertyChanges |-> FALSE, hasParentChange |-> FALSE,
     components |-> EmptyMap, dirtyQueue |-> <<>>,
     transform |-> 0, linearVelocity |-> 0, angularVelocity |-> 0,
     lastNetworkSendTime |-> clock, interval |-> 1]

NewSyncState ==
    [entities |-> EmptyMap, dirtyQueue |-> <<>>, queuedActions |-> <<>>,
     entityInterpolations |-> EmptyMap, needSendPlaceholderComponents |-> TRUE]

EntState(s, e) == IF e \in DOMAIN s.entities THEN s.entities[e] ELSE NewEntState
CompState(es, c) == IF c \in DOMAIN es.components THEN es.components[c] ELSE NewCompState

CompDirtyProcessed(cs) ==
    [cs EXCEPT !.dirtyAttributes = {}, !.newAndRemovedAttributes = EmptyMap,
               !.isNew = FALSE, !.isInQueue = FALSE]

EntDirtyProcessed(es) ==
    [es EXCEPT !.components = [c \in DOMAIN @ |-> CompDirtyProcessed(@[c])],
               !.dirtyQueue = <<>>, !.isNew = FALSE, !.isInQueue = FALSE,
               !.hasPropertyChanges = FALSE, !.hasParentChange = FALSE]

MarkEntityDirty(s, e, prop, par) ==
    LET es == EntState(s, e)
    IN [s EXCEPT !.entities = Put(@, e, [es EXCEPT !.isInQueue = TRUE,
                                                  !.hasPropertyChanges = @ \/ prop,
                                                  !.hasParentChange = @ \/ par]),
                 !.dirtyQueue = IF es.isInQueue THEN @ ELSE Append(@, e)]

MarkEntityRemoved(s, e) ==
    IF e \notin DOMAIN s.entities THEN s
    ELSE LET es == s.entities[e]
         IN [s EXCEPT !.entities[e] = [es EXCEPT !.removed = TRUE, !.isInQueue = TRUE],
                      !.dirtyQueue = IF es.isInQueue THEN @ ELSE Append(@, e)]

EntMarkComponentDirty(es, c) ==
    LET cs == CompState(es, c)
    IN [es EXCEPT !.components = Put(@, c, [cs EXCEPT !.isInQueue = TRUE]),
                  !.dirtyQueue = IF cs.isInQueue THEN @ ELSE Append(@, c)]

MarkComponentDirty(s, e, c) ==
    LET s1 == MarkEntityDirty(s, e, FALSE, FALSE)
    IN [s1 EXCEPT !.entities[e] = EntMarkComponentDirty(@, c)]

MarkComponentRemoved(s, e, c) ==
    IF e \notin DOMAIN s.entities \/ c \notin DOMAIN s.entities[e].components THEN s
    ELSE LET s1 == MarkEntityDirty(s, e, FALSE, FALSE)
             cs == s1.entities[e].components[c]
         IN [s1 EXCEPT !.entities[e].components[c] =
                            [cs EXCEPT !.removed = TRUE, !.isNew = FALSE, !.isInQueue = TRUE],
                       !.entities[e].dirtyQueue = IF cs.isInQueue THEN @ ELSE Append(@, c)]

MarkAttributeDirty(s, e, c, i) ==
    LET s1 == MarkComponentDirty(s, e, c)
    IN [s1 EXCEPT !.entities[e].components[c].dirtyAttributes = @ \cup {i}]

MarkAttributeCreated(s, e, c, i) ==
    LET s1 == MarkComponentDirty(s, e, c)
    IN [s1 EXCEPT !.entities[e].components[c].newAndRemovedAttributes = Put(@, i, TRUE)]

MarkAttributeRemoved(s, e, c, i) ==
    LET s1 == MarkComponentDirty(s, e, c)
    IN [s1 EXCEPT !.entities[e].components[c].newAndRemovedAttributes = Put(@, i, FALSE)]

MarkEntityProcessed(s, e) ==
    [s EXCEPT !.entities = Put(@, e, EntDirtyProcessed(EntState(s, e)))]

MarkComponentProcessed(s, e, c) ==
    LET es == EntState(s, e)
    IN [s EXCEPT !.entities =
            Put(@, e, [es EXCEPT !.components = Put(@, c, CompDirtyProcessed(CompState(es, c)))])]

\* SceneSyncState::RemoveFromQueue
RemoveFromQueue(s, e) ==
    IF e \in DOMAIN s.entities /\ s.entities[e].isInQueue
    THEN [s EXCEPT !.dirtyQueue = RemoveFirst(@, e), !.entities[e].isInQueue = FALSE]
    ELSE s

\* EntitySyncState::RemoveFromQueue
EntRemoveFromQueue(es, c) ==
    IF c \in DOMAIN es.components /\ es.components[c].isInQueue
    THEN [es EXCEPT !.dirtyQueue = RemoveFirst(@, c), !.components[c].isInQueue = FALSE]
    ELSE es

-----------------------------------------------------------------------------
(* The connections.                                                        *)

\* a null UserConnection pointer
NoConnection == "none"

\* the order of the server's user connection list
ClientSeq == <<"c1", "c2">>

\* the protocol version and transport of peer p's connection k
ProtoOf(p, k) == IF IsServer(p) THEN conn[k].protocolVersion ELSE conn[p].protocolVersion
IsKNet(p, k) == IF IsServer(p) THEN conn[k].kNet ELSE TRUE

-----------------------------------------------------------------------------
(* A peer's world while one handler runs: w.p the peer, w.sc its scene,    *)
(* w.st its sync states by connection, w.gen its entity id generators,     *)
(* w.ty its placeholder component types,                                   *)
(* w.sig the signals emitted so far, w.out the messages sent so far as     *)
(* <<connection, message>> pairs, w.un the connections' unackedIdsToRealIds *)
(* maps, w.exc whether a NetException is propagating, w.disc the           *)
(* connections the handler has disconnected, w.ub what a read of a freed   *)
(* entity sync state yields while the handler runs.                        *)

World(p) ==
    [p |-> p, sc |-> scene[p], st |-> st[p], gen |-> gen[p], ty |-> types[p], sig |-> {}, out |-> <<>>,
     un |-> [k \in Clients |-> conn[k].unackedIdsToRealIds], exc |-> FALSE, disc |-> {},
     mgr |-> mgr[p], ub |-> "stale"]

\* a signal record: name, entity id, component id, attribute index, change kind
Signal(w, name, e, c, i, change) == [w EXCEPT !.sig = @ \cup {<<name, e, c, i, change>>}]
Send(w, k, m) == [w EXCEPT !.out = Append(@, <<k, m>>)]

ForEachState(w, F(_)) ==
    [w EXCEPT !.st = [k \in DOMAIN @ |-> IF @[k] = Null THEN Null ELSE F(@[k])]]

(* The tracker: SyncManager's slots for the scene's change signals.        *)

\* a slot that marks the attribute dirty whatever the change kind
OnAttributeChanged_AnyKind(w, e, c, i, change) ==
    IF IsLocalId(c) \/ IsLocalId(e) THEN w
    ELSE ForEachState(w, LAMBDA s : MarkAttributeDirty(s, e, c, i))

OnAttributeChanged(w, e, c, i, change) ==
    IF change # Replicate \/ IsLocalId(c) THEN w
    ELSE IF IsLocalId(e) THEN w
    ELSE ForEachState(w, LAMBDA s : MarkAttributeDirty(s, e, c, i))

OnAttributeAdded(w, e, c, i, change) ==
    IF IsLocalId(c) THEN w
    ELSE IF IsLocalId(e) THEN w
    ELSE ForEachState(w, LAMBDA s : MarkAttributeCreated(s, e, c, i))

OnAttributeRemoved(w, e, c, i, change) ==
    IF IsLocalId(c) THEN w
    ELSE IF IsLocalId(e) THEN w
    ELSE ForEachState(w, LAMBDA s : MarkAttributeRemoved(s, e, c, i))

OnComponentAdded(w, e, c, change) ==
    IF change # Replicate \/ IsLocalId(c) THEN w
    ELSE IF IsLocalId(e) THEN w
    ELSE ForEachState(w, LAMBDA s : MarkComponentDirty(s, e, c))

OnComponentRemoved(w, e, c, change) ==
    IF change # Replicate \/ IsLocalId(c) THEN w
    ELSE IF IsLocalId(e) THEN w
    ELSE ForEachState(w, LAMBDA s : MarkComponentRemoved(s, e, c))

OnEntityCreated(w, e, change) ==
    IF change # Replicate \/ IsLocalId(e) THEN w
    ELSE ForEachState(w, LAMBDA s : MarkEntityDirty(s, e, FALSE, FALSE))

OnEntityRemoved(w, e, change) ==
    IF change # Replicate THEN w
    ELSE IF IsLocalId(e) THEN w
    ELSE ForEachState(w, LAMBDA s : MarkEntityRemoved(s, e))

OnEntityPropertiesChanged(w, e, change) ==
    IF change # Replicate \/ IsLocalId(e) THEN w
    ELSE ForEachState(w, LAMBDA s : MarkEntityDirty(s, e, TRUE, FALSE))

OnEntityParentChanged(w, e, newParent, change) ==
    IF change # Replicate \/ IsLocalId(e) THEN w
    ELSE IF newParent # 0 /\ IsLocalId(newParent) THEN w
    ELSE ForEachState(w, LAMBDA s : MarkEntityDirty(s, e, FALSE, TRUE))

\* an action triggered on this peer's entity: a server runs a Server action itself and
\* queues a Peers action to the authenticated users, a client sends a Server or Peers
\* action to the server without the Local bit (lines 642-679)
\* the users of a list that a description is sent to (lines 796-800)
RECURSIVE SendToUsers(_, _, _, _)
SendToUsers(w, users, m, componentTypeSender) ==
    IF users = <<>> THEN w
    ELSE LET c == Head(users)
             to == /\ w.st[c] # Null /\ conn[c].authenticated
                   /\ conn[c].protocolVersion >= ProtocolCustomComponents
                   /\ c # componentTypeSender
         IN SendToUsers(IF to THEN Send(w, c, m) ELSE w, Tail(users), m, componentTypeSender)

\* a description that is sent only to the connection named
ReplicateComponentType_ToConnection(w, typeId, connection, componentTypeSender) ==
    IF typeId \in w.ty.placeholders /\ connection # NoConnection
          /\ ProtoOf(w.p, connection) >= ProtocolCustomComponents
    THEN Send(w, connection, [kind |-> "RegisterComponentType", typeId |-> typeId])
    ELSE w

\* a description that is sent whatever protocol version the receiver negotiated
ReplicateComponentType_AnyProtocol(w, typeId, connection, componentTypeSender) ==
    LET m == [kind |-> "RegisterComponentType", typeId |-> typeId]
    IN IF typeId \notin w.ty.placeholders THEN w
       ELSE IF connection = NoConnection
       THEN IF IsServer(w.p) THEN SendToUsers(w, ClientSeq, m, componentTypeSender)
            ELSE IF w.st[Server] # Null THEN Send(w, Server, m)
            ELSE w
       ELSE Send(w, connection, m)

\* connection is NoConnection when the description goes to every peer; componentTypeSender
\* is the connection the description came from, NoConnection if it is the application's
ReplicateComponentType(w, typeId, connection, componentTypeSender) ==
    LET m == [kind |-> "RegisterComponentType", typeId |-> typeId]
    IN IF typeId \notin w.ty.placeholders THEN w
       ELSE IF connection = NoConnection
       THEN IF IsServer(w.p) THEN SendToUsers(w, ClientSeq, m, componentTypeSender)
            ELSE IF w.st[Server] # Null /\ conn[w.p].protocolVersion >= ProtocolCustomComponents
            THEN Send(w, Server, m)
            ELSE w
       ELSE IF ProtoOf(w.p, connection) >= ProtocolCustomComponents THEN Send(w, connection, m)
       ELSE w

OnPlaceholderComponentTypeRegistered(w, typeId, change, componentTypeSender) ==
    IF change # Replicate THEN w
    ELSE ReplicateComponentType(w, typeId, NoConnection, componentTypeSender)

\* SceneAPI::RegisterPlaceholderComponentType: records the description and signals it
RegisterPlaceholderComponentType(w, typeId, change, componentTypeSender) ==
    OnPlaceholderComponentTypeRegistered(
        Signal([w EXCEPT !.ty.placeholders = @ \cup {typeId}],
               "PlaceholderComponentTypeRegistered", 0, 0, typeId, change),
        typeId, change, componentTypeSender)

\* a slot that sends the requested type as it is
OnActionTriggered_KeepLocal(w, e, name, type) ==
    IF ~IsServer(w.p) /\ type > ExecLocal /\ w.st[Server] # Null
    THEN Send(w, Server, [kind |-> "EntityAction", entityId |-> e, name |-> name,
                          executionType |-> type])
    ELSE w

OnActionTriggered(w, e, name, type) ==
    LET isServer == IsServer(w.p)
        msg == [kind |-> "EntityAction", entityId |-> e, name |-> name, executionType |-> type]
        w1 == IF isServer /\ HasBit(type, ExecServer)
              THEN Signal(w, "ActionExecuted", e, 0, 0, name) ELSE w
        w2 == IF ~isServer /\ (HasBit(type, ExecServer) \/ HasBit(type, ExecPeers))
                 /\ w.st[Server] # Null
              THEN Send(w1, Server, [msg EXCEPT !.executionType =
                                        IF HasBit(type, ExecLocal) THEN type - ExecLocal ELSE type])
              ELSE w1
    IN IF isServer /\ HasBit(type, ExecPeers)
       THEN [w2 EXCEPT !.st = [c \in DOMAIN @ |->
                                  IF @[c] # Null /\ conn[c].authenticated
                                  THEN [@[c] EXCEPT !.queuedActions =
                                            Append(@, [msg EXCEPT !.executionType = ExecLocal])]
                                  ELSE @[c]]]
       ELSE w2

(* Scene operations (Scene, Entity, IComponent, IAttribute): each changes  *)
(* the scene and emits its signal to the tracker unless the change kind is *)
(* Disconnected.                                                           *)

EmitAttributeChanged(w, e, c, i, change) ==
    IF change = Disconnected THEN w
    ELSE OnAttributeChanged(Signal(w, "AttributeChanged", e, c, i, change), e, c, i, change)

EmitEntityCreated(w, e, change) ==
    IF change = Disconnected THEN w
    ELSE OnEntityCreated(Signal(w, "EntityCreated", e, 0, 0, change), e, change)

\* IComponent::ComponentChanged: signals every attribute of the component
RECURSIVE ComponentChangedFrom(_, _, _, _, _)
ComponentChangedFrom(w, e, c, idxs, change) ==
    IF idxs = <<>> THEN w
    ELSE ComponentChangedFrom(EmitAttributeChanged(w, e, c, Head(idxs), change), e, c, Tail(idxs), change)
ComponentChanged(w, e, c, change) ==
    IF ~HasComp(w.sc, e, c) THEN w
    ELSE ComponentChangedFrom(w, e, c, SortedSeq(DOMAIN w.sc[e].comps[c].attrs), change)

\* Scene::CreateEntity(id): adds an empty entity, emits nothing
SceneCreateEntity(w, e) == [w EXCEPT !.sc = Put(@, e, NewEntity)]

\* Scene::RemoveEntity: children lose their parent
SceneRemoveEntity(w, e, change) ==
    IF ~HasEntity(w.sc, e) THEN w
    ELSE LET w1 == IF change = Disconnected THEN w
                   ELSE OnEntityRemoved(Signal(w, "EntityRemoved", e, 0, 0, change), e, change)
             sc1 == Del(w1.sc, e)
         IN [w1 EXCEPT !.sc = [x \in DOMAIN sc1 |->
                                   IF sc1[x].parent = e THEN [sc1[x] EXCEPT !.parent = 0] ELSE sc1[x]]]

\* whether a is e or one of e's ancestors' ... : is a an ancestor of e (or e itself)
RECURSIVE IsAncestorOrSelf(_, _, _, _)
IsAncestorOrSelf(sc, a, e, fuel) ==
    IF e = a THEN TRUE
    ELSE IF fuel = 0 \/ ~HasEntity(sc, e) \/ ParentOf(sc, e) = 0 THEN FALSE
    ELSE IsAncestorOrSelf(sc, a, ParentOf(sc, e), fuel - 1)

\* Entity::SetParent: no change when the parent is the same or the link would be cyclic
EntitySetParent(w, e, parent, change) ==
    IF ParentOf(w.sc, e) = parent THEN w
    ELSE IF parent # 0 /\ IsAncestorOrSelf(w.sc, e, parent, Cardinality(DOMAIN w.sc)) THEN w
    ELSE LET w1 == [w EXCEPT !.sc[e].parent = parent]
         IN IF change = Disconnected THEN w1
            ELSE OnEntityParentChanged(Signal(w1, "EntityParentChanged", e, 0, 0, change), e, parent, change)

\* Entity::SetTemporary
EntitySetTemporary(w, e, enable, change) ==
    IF w.sc[e].temporary = enable THEN w
    ELSE LET w1 == [w EXCEPT !.sc[e].temporary = enable]
         IN IF change = Disconnected THEN w1
            ELSE OnEntityPropertiesChanged(Signal(w1, "EntityTemporaryStateToggled", e, 0, 0, change), e, change)

\* the id Entity::CreateComponentWithId gives a component created with id 0:
\* the next replicated id on the scene's authority, the next unacked id on a client
NextCompId(w, e, local) ==
    IF local THEN FIRST_LOCAL_ID + Cardinality(DOMAIN w.sc[e].comps) + 1
    ELSE IF IsServer(w.p) THEN w.sc[e].genR + 1
    ELSE FIRST_UNACKED_ID + w.sc[e].genU + 1

\* Entity::CreateComponentWithId with the id already decided; the caller tests CanCreateComponent
EntityCreateComponent(w, e, c, t, change) ==
    LET ent == w.sc[e]
        ent1 == [ent EXCEPT !.comps = Put(@, c, NewComponent(t)),
                            !.genR = IF c < FIRST_UNACKED_ID /\ c > @ THEN c ELSE @,
                            !.genU = IF IsUnackedId(c) /\ MaskId(c) > @ THEN MaskId(c) ELSE @]
        w1 == [w EXCEPT !.sc[e] = ent1]
    IN IF change = Disconnected THEN w1
       ELSE OnComponentAdded(Signal(w1, "ComponentAdded", e, c, 0, change), e, c, change)

\* a component is created by its factory, or as a placeholder of a described type
CanCreateComponent(w, e, c, t) ==
    (FactoryRegistered(w.p, t) \/ t \in w.ty.placeholders) /\ ~HasComp(w.sc, e, c)

\* Entity::RemoveComponent
EntityRemoveComponent(w, e, c, change) ==
    IF ~HasComp(w.sc, e, c) THEN w
    ELSE LET w1 == IF change = Disconnected THEN w
                   ELSE OnComponentRemoved(Signal(w, "ComponentRemoved", e, c, 0, change), e, c, change)
         IN [w1 EXCEPT !.sc[e].comps = Del(@, c)]

\* IComponent::CreateAttribute on a component that supports dynamic attributes; the
\* scene signals an attribute's creation and removal whatever the change kind
CanCreateAttribute(w, e, c, i) ==
    /\ HasComp(w.sc, e, c)
    /\ SupportsDynamicAttributes(w.sc[e].comps[c].typeId)
    /\ i >= NumStaticAttributes(w.sc[e].comps[c].typeId)

ComponentCreateAttribute(w, e, c, i, change) ==
    LET w1 == [w EXCEPT !.sc[e].comps[c].attrs = Put(@, i, 0)]
    IN OnAttributeAdded(Signal(w1, "AttributeAdded", e, c, i, change), e, c, i, change)

\* IComponent::RemoveAttribute: only an existing dynamic attribute is removed
ComponentRemoveAttribute(w, e, c, i, change) ==
    IF ~(HasAttr(w.sc, e, c, i) /\ IsDynamicAttr(w.sc[e].comps[c], i)) THEN w
    ELSE LET w1 == OnAttributeRemoved(Signal(w, "AttributeRemoved", e, c, i, change), e, c, i, change)
         IN [w1 EXCEPT !.sc[e].comps[c].attrs = Del(@, i)]

\* IAttribute::FromBinary(ds, Disconnected): sets the value, signals nothing
AttrFromBinary(w, e, c, i, v) == [w EXCEPT !.sc[e].comps[c].attrs[i] = v]

\* IAttribute::Set(value, change)
AttrSet(w, e, c, i, v, change) == EmitAttributeChanged(AttrFromBinary(w, e, c, i, v), e, c, i, change)

-----------------------------------------------------------------------------
(* Wire format of a component (WriteComponentFullUpdate): the static       *)
(* attributes back to back, then each dynamic attribute with its index.    *)

AttrsSize(comp) == IF DOMAIN comp.attrs = {} THEN 0 ELSE Max(DOMAIN comp.attrs) + 1

RECURSIVE StaticBlock(_, _, _)
StaticBlock(comp, i, n) ==
    IF i >= n THEN <<>> ELSE <<comp.attrs[i]>> \o StaticBlock(comp, i + 1, n)

RECURSIVE DynamicBlock(_, _)
DynamicBlock(comp, idxs) ==
    IF idxs = <<>> THEN <<>>
    ELSE <<[index |-> Head(idxs), value |-> comp.attrs[Head(idxs)]]>> \o DynamicBlock(comp, Tail(idxs))

\* a full update that leaves the dynamic attributes out
WriteComponentFullUpdate_NoDynamic(c, comp) ==
    [compId |-> MaskId(c), typeId |-> comp.typeId,
     static |-> StaticBlock(comp, 0, NumStaticAttributes(comp.typeId)),
     dynamic |-> <<>>, throws |-> "no"]

WriteComponentFullUpdate(c, comp) ==
    [compId |-> MaskId(c), typeId |-> comp.typeId,
     static |-> StaticBlock(comp, 0, NumStaticAttributes(comp.typeId)),
     dynamic |-> DynamicBlock(comp, SortedSeq({i \in DOMAIN comp.attrs : IsDynamicAttr(comp, i)})),
     throws |-> "no"]

\* squared-distance threshold under which a Transform change is not sent; positions are
\* in units whose square is below the threshold and whose double's square is above it
TransformEps == 1
Significant(a, b) == (a - b) * (a - b) > TransformEps

-----------------------------------------------------------------------------
(* SyncManager::ProcessSyncState: the generic sync pass for connection k.  *)


\* the attribute indices the pass examines: the bits of the first (size + 7) >> 3 bytes
ExaminedBits(comp) == {i \in 0..(8 * ((AttrsSize(comp) + 7) \div 8) - 1) : TRUE}

\* the records of newAndRemovedAttributes in map order
RECURSIVE NewAndRemovedMsgs(_, _, _, _)
NewAndRemovedMsgs(c, comp, nr, idxs) ==
    IF idxs = <<>> THEN [ca |-> <<>>, ra |-> <<>>]
    ELSE LET i == Head(idxs)
             rest == NewAndRemovedMsgs(c, comp, nr, Tail(idxs))
         IN IF nr[i]
            THEN IF i \in DOMAIN comp.attrs /\ IsDynamicAttr(comp, i)
                 THEN [rest EXCEPT !.ca = <<[compId |-> MaskId(c), index |-> i,
                                             value |-> comp.attrs[i], throws |-> FALSE]>> \o @]
                 ELSE rest
            ELSE [rest EXCEPT !.ra = <<[compId |-> MaskId(c), index |-> i]>> \o @]

RECURSIVE IndexList(_, _)
IndexList(comp, idxs) ==
    IF idxs = <<>> THEN <<>>
    ELSE <<[index |-> Head(idxs), value |-> comp.attrs[Head(idxs)]]>> \o IndexList(comp, Tail(idxs))

\* bitmask layout: one entry per attribute slot, the value where the dirty bit is set
RECURSIVE BitMask(_, _, _, _)
BitMask(comp, dirty, i, n) ==
    IF i >= n THEN <<>>
    ELSE <<IF i \in dirty
           THEN [changed |-> TRUE, value |-> IF i \in DOMAIN comp.attrs THEN comp.attrs[i] ELSE 0]
           ELSE [changed |-> FALSE, value |-> 0]>> \o BitMask(comp, dirty, i + 1, n)

\* a block that is an index list whenever at most one attribute changed
EditBlock_Indices(c, comp, dirty, changed) ==
    IF Cardinality(changed) <= 1
    THEN [compId |-> MaskId(c), method |-> 0, list |-> IndexList(comp, SortedSeq(changed))]
    ELSE [compId |-> MaskId(c), method |-> 1, list |-> BitMask(comp, dirty, 0, AttrsSize(comp))]

\* the EditAttributes block of one component (lines 1823-1851)
EditBlock(c, comp, dirty, changed) ==
    IF Cardinality(changed) * 8 + 8 <= AttrsSize(comp)
    THEN [compId |-> MaskId(c), method |-> 0, list |-> IndexList(comp, SortedSeq(changed))]
    ELSE [compId |-> MaskId(c), method |-> 1, list |-> BitMask(comp, dirty, 0, AttrsSize(comp))]

\* the loop over an entity's component dirty queue (lines 1660-1866); acc holds the
\* entity sync state and the five message bodies
RECURSIVE ProcessComponents(_, _, _, _, _)
ProcessComponents(p, k, e, ent, acc) ==
    IF acc.es.dirtyQueue = <<>> THEN acc
    ELSE
    LET c == Head(acc.es.dirtyQueue)
        es0 == [acc.es EXCEPT !.dirtyQueue = Tail(@)]
        known == c \in DOMAIN es0.components
        cs0 == [CompState(es0, c) EXCEPT !.isInQueue = FALSE]
        exists == c \in DOMAIN ent.comps
        comp == ent.comps[c]
        cs1 == IF exists THEN cs0 ELSE [cs0 EXCEPT !.isNew = FALSE]
        legacy == ~IsKNet(p, k) /\ ProtoOf(p, k) < ProtocolWebClientRigidBodyMessage
        nr == NewAndRemovedMsgs(c, comp, cs1.newAndRemovedAttributes,
                                SortedSeq(DOMAIN cs1.newAndRemovedAttributes))
        dirty1 == cs1.dirtyAttributes \ DOMAIN cs1.newAndRemovedAttributes
        changed == {i \in dirty1 \cap ExaminedBits(comp) : i \in DOMAIN comp.attrs}
        transformOnly == legacy /\ comp.typeId = PlaceableTypeId /\ changed = {0}
        sendChanges == ~(transformOnly /\ ~Significant(comp.attrs[0], es0.transform))
        put(cs) == [es0 EXCEPT !.components = Put(@, c, cs)]
    IN
    IF ~known THEN ProcessComponents(p, k, e, ent, [acc EXCEPT !.es = es0])
    ELSE IF exists /\ (IsLocalId(c) \/ (~cs1.isNew /\ IsUnackedId(c)))
    THEN ProcessComponents(p, k, e, ent, [acc EXCEPT !.es = put(cs1)])
    ELSE IF cs1.removed
    THEN ProcessComponents(p, k, e, ent,
            [acc EXCEPT !.es = [es0 EXCEPT !.components = Del(@, c)],
                        !.rc = Append(@, MaskId(c))])
    ELSE IF cs1.isNew
    THEN ProcessComponents(p, k, e, ent,
            [acc EXCEPT !.es = put(CompDirtyProcessed(cs1)),
                        !.cc = Append(@, WriteComponentFullUpdate(c, comp))])
    ELSE IF exists
    THEN ProcessComponents(p, k, e, ent,
            [acc EXCEPT !.es = [put([cs1 EXCEPT !.newAndRemovedAttributes = EmptyMap,
                                               !.dirtyAttributes =
                                                    IF changed # {} THEN @ \ ExaminedBits(comp)
                                                    ELSE dirty1])
                                 EXCEPT !.transform = IF transformOnly /\ sendChanges
                                                      THEN comp.attrs[0] ELSE @],
                        !.ca = @ \o nr.ca,
                        !.ra = @ \o nr.ra,
                        !.ea = IF changed # {} /\ sendChanges
                               THEN Append(@, EditBlock(c, comp, dirty1, changed)) ELSE @])
    ELSE ProcessComponents(p, k, e, ent, [acc EXCEPT !.es = [es0 EXCEPT !.components = Del(@, c)]])

SendIf(w, k, cond, m) == IF cond THEN Send(w, k, m) ELSE w

RECURSIVE MarkCompsProcessed(_, _, _)
MarkCompsProcessed(s, e, cids) ==
    IF cids = <<>> THEN s
    ELSE MarkCompsProcessed(MarkComponentProcessed(s, e, Head(cids)), e, Tail(cids))

RECURSIVE FullUpdates(_, _)
FullUpdates(ent, cids) ==
    IF cids = <<>> THEN <<>>
    ELSE <<WriteComponentFullUpdate(Head(cids), ent.comps[Head(cids)])>> \o FullUpdates(ent, Tail(cids))

\* the messages of one existing entity in the order the pass sends them, and the
\* entity's state marked processed (lines 1868-1921)
SendEntityChanges(w, k, e, es1, acc) ==
    LET id == MaskId(e)
        ent == w.sc[e]
        proto == ProtoOf(w.p, k)
        w1 == SendIf(w, k, acc.rc # <<>>, [kind |-> "RemoveComponents", entityId |-> id, comps |-> acc.rc])
        w2 == SendIf(w1, k, acc.ra # <<>>, [kind |-> "RemoveAttributes", entityId |-> id, attrs |-> acc.ra])
        w3 == SendIf(w2, k, acc.cc # <<>>, [kind |-> "CreateComponents", entityId |-> id, comps |-> acc.cc, throws |-> FALSE])
        w4 == SendIf(w3, k, acc.ca # <<>>, [kind |-> "CreateAttributes", entityId |-> id, attrs |-> acc.ca])
        w5 == SendIf(w4, k, acc.ea # <<>>, [kind |-> "EditAttributes", entityId |-> id, comps |-> acc.ea])
        w6 == SendIf(w5, k, es1.hasPropertyChanges,
                     [kind |-> "EditEntityProperties", entityId |-> id, temporary |-> ent.temporary])
        w7 == SendIf(w6, k, es1.hasParentChange /\ proto >= ProtocolHierarchicScene,
                     [kind |-> "SetEntityParent", entityId |-> e, parentId |-> ParentOf(w.sc, e)])
    IN [w7 EXCEPT !.st[k].entities[e] = EntDirtyProcessed(acc.es)]

\* the loop over the connection's dirty queue (lines 1548-1924): kept are the entries
\* the pass leaves in the queue, rest the entries still to visit
RECURSIVE ProcessQueue(_, _, _, _)
ProcessQueue(w, k, kept, rest) ==
    IF rest = <<>> THEN [w EXCEPT !.st[k].dirtyQueue = kept]
    ELSE
    LET e == Head(rest)
        s == w.st[k]
        p == w.p
        es == s.entities[e]
        serverImEnabled == IsServer(p) /\ prioritizer
        timeSinceLastSend == clock - es.lastNetworkSendTime
        exists == HasEntity(w.sc, e)
        ent == w.sc[e]
        es1 == [es EXCEPT !.isInQueue = FALSE, !.isNew = IF exists THEN @ ELSE FALSE]
        proto == ProtoOf(p, k)
        setEs(x) == [w EXCEPT !.st[k].entities[e] = x]
        erase(x) == [x EXCEPT !.st[k].entities = Del(@, e)]
    IN
    IF e \notin DOMAIN s.entities
    THEN \* an entry whose sync state has been erased
         ProcessQueue(Signal(w, "ErasedStateInQueue", e, 0, 0, Replicate), k, kept, Tail(rest))
    ELSE IF serverImEnabled /\ timeSinceLastSend < es.interval
    THEN ProcessQueue(w, k, Append(kept, e), Tail(rest))
    ELSE IF exists /\ (IsLocalId(e) \/ (~es1.isNew /\ IsUnackedId(e)))
    THEN ProcessQueue(setEs(es1), k, kept, Tail(rest))
    ELSE IF es1.removed
    THEN LET msg == [kind |-> "RemoveEntity", entityId |-> MaskId(e)]
         IN IF es1.isNew
            THEN ProcessQueue(Send(setEs([es1 EXCEPT !.removed = FALSE, !.isInQueue = TRUE]), k, msg),
                              k, kept, Append(Tail(rest), e))
            ELSE ProcessQueue(Send(erase(w), k, msg), k, kept, Tail(rest))
    ELSE IF es1.isNew
    THEN LET cids == SortedSeq({c \in DOMAIN ent.comps : ~IsLocalId(c)})
             msg == [kind |-> "CreateEntity", entityId |-> MaskId(e),
                     temporary |-> ent.temporary,
                     hasParentField |-> proto >= ProtocolHierarchicScene,
                     parentId |-> IF proto >= ProtocolHierarchicScene THEN ParentOf(w.sc, e) ELSE 0,
                     comps |-> FullUpdates(ent, cids), throws |-> FALSE]
             w1 == setEs(es1)
             s1 == MarkEntityProcessed(MarkCompsProcessed(w1.st[k], e, cids), e)
         IN ProcessQueue(Send([w1 EXCEPT !.st[k] = s1], k, msg), k, kept, Tail(rest))
    ELSE IF exists
    THEN ProcessQueue(SendEntityChanges(w, k, e, es1,
                ProcessComponents(p, k, e, ent,
                    [es |-> es1, rc |-> <<>>, ra |-> <<>>, cc |-> <<>>, ca |-> <<>>, ea |-> <<>>])),
            k, kept, Tail(rest))
    ELSE \* the entity is gone without its removal signalled: no branch advances or
         \* erases the iterator, the state is erased (1923-1924) and the next round
         \* reads the erased state through the queue entry.  Memory that still holds the
         \* state makes every further round the same, and the pass never returns; memory
         \* the allocator has overwritten reads as a removed state of an id no entity
         \* has, for which a RemoveEntity goes out before the entry is erased
         LET w1 == Signal(erase(w), "MissingEntity", e, 0, 0, Replicate)
         IN IF w.ub = "stale"
            THEN [Signal(w1, "PassNeverReturns", e, 0, 0, Replicate)
                     EXCEPT !.st[k].dirtyQueue = kept \o rest, !.mgr.stuck = TRUE]
            ELSE ProcessQueue(Send(w1, k, [kind |-> "RemoveEntity", entityId |-> 0]),
                              k, kept, Tail(rest))

RECURSIVE SendAll(_, _, _)
SendAll(w, k, msgs) == IF msgs = <<>> THEN w ELSE SendAll(Send(w, k, Head(msgs)), k, Tail(msgs))

\* a pass that sends the queued actions and keeps them queued
SendQueuedActions_Keep(w, k) == SendAll(w, k, w.st[k].queuedActions)

\* the queued entity actions go out after the scene messages (lines 1926-1936)
SendQueuedActions(w, k) ==
    [SendAll(w, k, w.st[k].queuedActions) EXCEPT !.st[k].queuedActions = <<>>]

RECURSIVE ReplicateComponentTypes(_, _, _)
ReplicateComponentTypes(w, typeIds, k) ==
    IF typeIds = <<>> THEN w
    ELSE ReplicateComponentTypes(ReplicateComponentType(w, Head(typeIds), k, NoConnection), Tail(typeIds), k)

\* a pass that sends the descriptions whenever there are any
SendPlaceholderComponents_Always(w, k) ==
    ReplicateComponentTypes(w, SortedSeq(w.ty.placeholders), k)

\* the descriptions pending for a connection (lines 1529-1540)
SendPlaceholderComponents(w, k) ==
    IF ProtoOf(w.p, k) >= ProtocolCustomComponents /\ w.st[k].needSendPlaceholderComponents
    THEN [ReplicateComponentTypes(w, SortedSeq({t \in w.ty.placeholders :
                                                    IsServer(w.p) \/ t \notin w.ty.fromServer}), k)
             EXCEPT !.st[k].needSendPlaceholderComponents = FALSE]
    ELSE w

\* the pass with the queued actions sent before the entities' messages
ProcessSyncState_ActionsFirst(w, k) ==
    ProcessQueue(SendQueuedActions(SendPlaceholderComponents(w, k), k), k, <<>>, w.st[k].dirtyQueue)

ProcessSyncState(w, k) ==
    Bind(ProcessQueue(SendPlaceholderComponents(w, k), k, <<>>, w.st[k].dirtyQueue), LAMBDA w1 :
        IF w1.mgr.stuck THEN w1 ELSE SendQueuedActions(w1, k))

-----------------------------------------------------------------------------
(* Inbound messages.  A message's throws field tells where the codec runs  *)
(* out of data: a component's "header" or "data", a message's first field. *)

\* Scene::AllowModifyEntity(user, entity): the application's policy, entity 0 for
\* "modify the scene"; a client's scene has no policy installed
AllowModifyEntity(w, k, e) == IsServer(w.p) => e \in allow[k]

ValidateAction(w, k) == IF ~IsServer(w.p) THEN TRUE ELSE conn[k].authenticated

ChangeOf(w) == IF IsServer(w.p) THEN Replicate ELSE LocalOnly

\* Scene::NextFreeId
NextFreeId(w) == w.gen.r + 1

Throw(w) == [w EXCEPT !.exc = TRUE]

\* the static and dynamic attribute data of one received component (lines 2088-2127)
RECURSIVE FillStatic(_, _, _, _, _, _)
FillStatic(w, e, c, static, i, n) ==
    IF i >= n \/ i >= Len(static) THEN w
    ELSE FillStatic(AttrFromBinary(w, e, c, i, static[i + 1]), e, c, static, i + 1, n)

RECURSIVE FillDynamic(_, _, _, _, _)
FillDynamic(w, e, c, dynamic, change) ==
    IF dynamic = <<>> THEN w
    ELSE LET d == Head(dynamic)
         IN IF ~CanCreateAttribute(w, e, c, d.index) \/ HasAttr(w.sc, e, c, d.index) THEN w
            ELSE FillDynamic(AttrFromBinary(ComponentCreateAttribute(w, e, c, d.index, change),
                                            e, c, d.index, d.value),
                             e, c, Tail(dynamic), change)

\* one pass of the component loop shared by HandleCreateEntity (2050-2129) and
\* HandleCreateComponents (2206-2289), from the world w1 in which a client has removed
\* a component already under the id; acc.w is the world, acc.rewrites the
\* componentIdRewrites, acc.added the components created so far
ReadComponent(acc, w1, k, e, mc, change) ==
    LET isServer == IsServer(w1.p)
        compID == IF isServer THEN NextCompId(w1, e, FALSE) ELSE mc.compId
        acc3 == [acc EXCEPT !.rewrites = IF isServer THEN Append(@, <<mc.compId, compID>>) ELSE @,
                            !.added = Append(@, compID)]
        dynamic == IF SupportsDynamicAttributes(mc.typeId) THEN mc.dynamic ELSE <<>>
    IN
    IF ~CanCreateComponent(w1, e, compID, mc.typeId) THEN [acc EXCEPT !.w = w1]
    ELSE Bind([EntityCreateComponent(w1, e, compID, mc.typeId, change)
                    EXCEPT !.st[k] = MarkComponentProcessed(@, e, compID)],
              LAMBDA w3 :
                  IF mc.throws = "data" THEN [acc3 EXCEPT !.w = Throw(w3)]
                  ELSE [acc3 EXCEPT !.w =
                            FillDynamic(FillStatic(w3, e, compID, mc.static, 0,
                                                   NumStaticAttributes(mc.typeId)),
                                        e, compID, dynamic, change)])

\* the loop ends where the codec throws
RECURSIVE ReadComponents(_, _, _, _, _)
ReadComponents(acc, k, e, comps, change) ==
    IF comps = <<>> \/ acc.w.exc THEN acc
    ELSE IF Head(comps).throws = "header" THEN [acc EXCEPT !.w = Throw(@)]
    ELSE ReadComponents(
            ReadComponent(acc,
                          IF ~IsServer(acc.w.p) /\ HasComp(acc.w.sc, e, Head(comps).compId)
                          THEN EntityRemoveComponent(acc.w, e, Head(comps).compId, LocalOnly)
                          ELSE acc.w,
                          k, e, Head(comps), change),
            k, e, Tail(comps), change)

RECURSIVE ComponentsChanged(_, _, _, _)
ComponentsChanged(w, e, cids, change) ==
    IF cids = <<>> THEN w
    ELSE ComponentsChanged(ComponentChanged(w, e, Head(cids), change), e, Tail(cids), change)

RECURSIVE MaskPairs(_)
MaskPairs(rw) ==
    IF rw = <<>> THEN <<>>
    ELSE <<<<MaskId(Head(rw)[1]), MaskId(Head(rw)[2])>>>> \o MaskPairs(Tail(rw))

\* convert an unacked id through the connection's map if it is there
\* an unacked id the server never issued read as the replicated id of the same number
ConvertUnacked_MasksUnknown(w, k, id) ==
    IF IsServer(w.p) /\ IsUnackedId(id)
    THEN (IF id \in DOMAIN w.un[k] THEN w.un[k][id] ELSE MaskId(id))
    ELSE id

ConvertUnacked(w, k, id) ==
    IF IsServer(w.p) /\ IsUnackedId(id) /\ id \in DOMAIN w.un[k] THEN w.un[k][id] ELSE id

HandleCreateEntity(w, k, m) ==
    IF w.st[k] = Null THEN w
    ELSE IF ~AllowModifyEntity(w, k, 0) THEN w
    ELSE IF ~ValidateAction(w, k) THEN w
    ELSE
    LET isServer == IsServer(w.p)
        change == ChangeOf(w)
        senderEntityID == m.entityId
        entityID == IF isServer THEN NextFreeId(w) ELSE senderEntityID
        w1 == IF ~isServer /\ HasEntity(w.sc, senderEntityID)
              THEN SceneRemoveEntity(w, senderEntityID, LocalOnly)
              ELSE IF isServer
              THEN [w EXCEPT !.gen.r = entityID,
                             !.un[k] = Put(@, OrUnacked(senderEntityID), entityID)]
              ELSE w
        created == [SceneCreateEntity(w1, entityID)
                        EXCEPT !.st[k] = IF isServer THEN MarkEntityProcessed(@, entityID) ELSE @]
        withParent(w4, parentEntityID) ==
            IF ProtoOf(w.p, k) >= ProtocolHierarchicScene /\ parentEntityID # 0
               /\ HasEntity(w4.sc, parentEntityID)
            THEN EntitySetParent(w4, entityID, parentEntityID, change) ELSE w4
        reply(rewrites) ==
            [kind |-> "CreateEntityReply", senderEntityId |-> MaskId(senderEntityID),
             entityId |-> MaskId(entityID), rewrites |-> MaskPairs(rewrites)]
    IN
    Bind(created, LAMBDA w3 :
        IF m.throws THEN SceneRemoveEntity(Throw(w3), entityID, Disconnected)
        ELSE
        \* Entity::SetTemporary(bool) signals with the entity's default change kind
        Bind(EntitySetTemporary(w3, entityID, m.temporary, Replicate), LAMBDA w4 :
        Bind(ReadComponents([w |-> withParent(w4, ConvertUnacked(w4, k, m.parentId)),
                             rewrites |-> <<>>, added |-> <<>>],
                            k, entityID, m.comps, change), LAMBDA acc :
            IF acc.w.exc THEN SceneRemoveEntity(acc.w, entityID, Disconnected)
            ELSE
            Bind(EmitEntityCreated(acc.w, entityID, change), LAMBDA w6 :
                [SendIf(ComponentsChanged(w6, entityID,
                                          SortedSeq(DOMAIN w6.sc[entityID].comps), change),
                        k, isServer, reply(acc.rewrites))
                    EXCEPT !.st[k] = MarkEntityProcessed(@, entityID)]))))

RECURSIVE RemoveComponents(_, _, _, _)
RemoveComponents(w, e, cids, change) ==
    IF cids = <<>> THEN w
    ELSE RemoveComponents(EntityRemoveComponent(w, e, Head(cids), change), e, Tail(cids), change)

HandleCreateComponents(w, k, m) ==
    IF w.st[k] = Null THEN w
    ELSE IF m.throws THEN Throw(w)
    ELSE IF ~ValidateAction(w, k) THEN w
    ELSE IF ~HasEntity(w.sc, m.entityId) THEN w
    ELSE IF ~AllowModifyEntity(w, k, m.entityId) THEN w
    ELSE
    LET isServer == IsServer(w.p)
        change == ChangeOf(w)
        entityID == m.entityId
    IN
    Bind(ReadComponents([w |-> w, rewrites |-> <<>>, added |-> <<>>], k, entityID, m.comps, change),
         LAMBDA acc :
            IF acc.w.exc THEN RemoveComponents(acc.w, entityID, acc.added, Disconnected)
            ELSE ComponentsChanged(
                    SendIf(acc.w, k, isServer,
                           [kind |-> "CreateComponentsReply", entityId |-> MaskId(entityID),
                            rewrites |-> MaskPairs(acc.rewrites)]),
                    entityID, acc.added, change))

\* state->entities[e].components[c], created by operator[] when missing, changed by F
TouchComp(s, e, c, F(_)) ==
    LET es == EntState(s, e)
    IN [s EXCEPT !.entities = Put(@, e, [es EXCEPT !.components = Put(@, c, F(CompState(es, c)))])]

TouchEnt(s, e, F(_)) == [s EXCEPT !.entities = Put(@, e, F(EntState(s, e)))]

HandleRemoveEntity(w, k, m) ==
    IF w.st[k] = Null THEN w
    ELSE IF ~ValidateAction(w, k) THEN w
    ELSE IF ~HasEntity(w.sc, m.entityId) THEN w
    ELSE IF ~AllowModifyEntity(w, k, m.entityId) THEN w
    ELSE LET w1 == SceneRemoveEntity(w, m.entityId, ChangeOf(w))
         IN [w1 EXCEPT !.st[k] = [RemoveFromQueue(@, m.entityId) EXCEPT !.entities = Del(@, m.entityId)]]

RECURSIVE RemoveComponentsLoop(_, _, _, _)
RemoveComponentsLoop(w, k, e, cids) ==
    IF cids = <<>> THEN w
    ELSE LET c == Head(cids)
             w1 == EntityRemoveComponent(w, e, c, ChangeOf(w))
             w2 == IF e \in DOMAIN w1.st[k].entities
                   THEN [w1 EXCEPT !.st[k].entities[e] =
                                [EntRemoveFromQueue(@, c) EXCEPT !.components = Del(@, c)]]
                   ELSE w1
         IN IF ~HasComp(w.sc, e, c) THEN RemoveComponentsLoop(w, k, e, Tail(cids))
            ELSE RemoveComponentsLoop(w2, k, e, Tail(cids))

HandleRemoveComponents(w, k, m) ==
    IF w.st[k] = Null THEN w
    ELSE IF ~ValidateAction(w, k) THEN w
    ELSE IF ~HasEntity(w.sc, m.entityId) THEN w
    ELSE IF ~AllowModifyEntity(w, k, m.entityId) THEN w
    ELSE RemoveComponentsLoop(w, k, m.entityId, m.comps)

\* the read loop of HandleCreateAttributes (2449-2491); acc.stop is set by a return
RECURSIVE CreateAttributesLoop(_, _, _, _)
CreateAttributesLoop(acc, k, e, attrs) ==
    IF attrs = <<>> THEN acc
    ELSE
    LET a == Head(attrs)
        w == acc.w
        c == a.compId
        exists == HasAttr(w.sc, e, c, a.index)
        w1 == IF exists THEN w ELSE ComponentCreateAttribute(w, e, c, a.index, ChangeOf(w))
        w2 == AttrFromBinary(w1, e, c, a.index, a.value)
        w3 == [w2 EXCEPT !.st[k] = TouchComp(@, e, c,
                    LAMBDA cs : [cs EXCEPT !.newAndRemovedAttributes = Del(@, a.index)])]
    IN
    IF ~HasComp(w.sc, e, c) THEN [acc EXCEPT !.stop = TRUE]
    ELSE IF IsServer(w.p) /\ exists THEN [acc EXCEPT !.stop = TRUE]
    ELSE IF ~exists /\ ~CanCreateAttribute(w, e, c, a.index) THEN [acc EXCEPT !.stop = TRUE]
    ELSE IF a.throws
    THEN [acc EXCEPT !.w = Throw(ComponentRemoveAttribute(w1, e, c, a.index, Disconnected)), !.stop = TRUE]
    ELSE CreateAttributesLoop([acc EXCEPT !.w = w3, !.added = Append(@, <<c, a.index>>)], k, e, Tail(attrs))

\* EmitAttributeChanged for each attribute read, then its dirty bit cleared in the sender's state
RECURSIVE SignalAndClear(_, _, _, _)
SignalAndClear(w, k, e, list) ==
    IF list = <<>> THEN w
    ELSE LET c == Head(list)[1]
             i == Head(list)[2]
             w1 == EmitAttributeChanged(w, e, c, i, ChangeOf(w))
             w2 == [w1 EXCEPT !.st[k] = TouchComp(@, e, c,
                         LAMBDA cs : [cs EXCEPT !.dirtyAttributes = @ \ {i}])]
         IN SignalAndClear(w2, k, e, Tail(list))

HandleCreateAttributes(w, k, m) ==
    IF w.st[k] = Null THEN w
    ELSE IF ~ValidateAction(w, k) THEN w
    ELSE IF ~HasEntity(w.sc, m.entityId) THEN w
    ELSE IF ~AllowModifyEntity(w, k, 0) THEN w
    ELSE LET acc == CreateAttributesLoop([w |-> w, added |-> <<>>, stop |-> FALSE], k, m.entityId, m.attrs)
         IN IF acc.stop THEN acc.w ELSE SignalAndClear(acc.w, k, m.entityId, acc.added)

RECURSIVE RemoveAttributesLoop(_, _, _, _)
RemoveAttributesLoop(w, k, e, attrs) ==
    IF attrs = <<>> THEN w
    ELSE LET a == Head(attrs)
             w1 == ComponentRemoveAttribute(w, e, a.compId, a.index, ChangeOf(w))
             w2 == [w1 EXCEPT !.st[k] = TouchComp(@, e, a.compId,
                         LAMBDA cs : [cs EXCEPT !.newAndRemovedAttributes = Del(@, a.index)])]
         IN IF ~HasComp(w.sc, e, a.compId) THEN RemoveAttributesLoop(w, k, e, Tail(attrs))
            ELSE RemoveAttributesLoop(w2, k, e, Tail(attrs))

HandleRemoveAttributes(w, k, m) ==
    IF w.st[k] = Null THEN w
    ELSE IF ~ValidateAction(w, k) THEN w
    ELSE IF ~HasEntity(w.sc, m.entityId) THEN w
    ELSE IF ~AllowModifyEntity(w, k, m.entityId) THEN w
    ELSE RemoveAttributesLoop(w, k, m.entityId, m.attrs)

\* the attributes an EditAttributes block names, in order, as <<index, value>> pairs
\* (lines 2625-2685): reading stops at an index the component does not have
RECURSIVE ReadIndexList(_, _)
ReadIndexList(comp, list) ==
    IF list = <<>> THEN <<>>
    ELSE IF Head(list).index \notin DOMAIN comp.attrs THEN <<>>
    ELSE <<<<Head(list).index, Head(list).value>>>> \o ReadIndexList(comp, Tail(list))

RECURSIVE ReadBitMask(_, _, _)
ReadBitMask(comp, list, i) ==
    IF i >= AttrsSize(comp) \/ i >= Len(list) THEN <<>>
    ELSE IF ~list[i + 1].changed THEN ReadBitMask(comp, list, i + 1)
    ELSE IF i \notin DOMAIN comp.attrs THEN <<>>
    ELSE <<<<i, list[i + 1].value>>>> \o ReadBitMask(comp, list, i + 1)

RECURSIVE ApplyEdits(_, _, _, _)
ApplyEdits(w, e, c, edits) ==
    IF edits = <<>> THEN w
    ELSE ApplyEdits(AttrFromBinary(w, e, c, Head(edits)[1], Head(edits)[2]), e, c, Tail(edits))

RECURSIVE Indices(_, _)
Indices(c, edits) ==
    IF edits = <<>> THEN <<>> ELSE <<<<c, Head(edits)[1]>>>> \o Indices(c, Tail(edits))

RECURSIVE EditAttributesLoop(_, _, _)
EditAttributesLoop(acc, e, blocks) ==
    IF blocks = <<>> THEN acc
    ELSE LET b == Head(blocks)
             comp == acc.w.sc[e].comps[b.compId]
             edits == IF b.method = 0 THEN ReadIndexList(comp, b.list) ELSE ReadBitMask(comp, b.list, 0)
         IN IF ~HasComp(acc.w.sc, e, b.compId) THEN EditAttributesLoop(acc, e, Tail(blocks))
            ELSE EditAttributesLoop([acc EXCEPT !.w = ApplyEdits(@, e, b.compId, edits),
                                                !.added = @ \o Indices(b.compId, edits)],
                                    e, Tail(blocks))

HandleEditAttributes(w, k, m) ==
    IF w.st[k] = Null THEN w
    ELSE IF ~ValidateAction(w, k) THEN w
    ELSE IF ~HasEntity(w.sc, m.entityId) THEN w
    ELSE IF ~AllowModifyEntity(w, k, m.entityId) THEN w
    ELSE LET acc == EditAttributesLoop([w |-> w, added |-> <<>>], m.entityId, m.comps)
         IN SignalAndClear(acc.w, k, m.entityId, acc.added)

HandleEditEntityProperties(w, k, m) ==
    IF w.st[k] = Null THEN w
    ELSE IF ~ValidateAction(w, k) THEN w
    ELSE IF ~HasEntity(w.sc, m.entityId) THEN w
    ELSE IF ~AllowModifyEntity(w, k, m.entityId) THEN w
    ELSE LET w1 == EntitySetTemporary(w, m.entityId, m.temporary, ChangeOf(w))
         IN [w1 EXCEPT !.st[k] = TouchEnt(@, m.entityId,
                                          LAMBDA es : [es EXCEPT !.hasPropertyChanges = FALSE])]

HandleSetEntityParent(w, k, m) ==
    LET unknown(id) == IsServer(w.p) /\ IsUnackedId(id) /\ id \notin DOMAIN w.un[k]
        entityID == ConvertUnacked(w, k, m.entityId)
        parentEntityID == ConvertUnacked(w, k, m.parentId)
        w1 == EntitySetParent(w, entityID, parentEntityID, ChangeOf(w))
    IN
    IF w.st[k] = Null THEN w
    ELSE IF unknown(m.entityId) \/ unknown(m.parentId) THEN w
    ELSE IF ~ValidateAction(w, k) THEN w
    ELSE IF ~HasEntity(w.sc, entityID) THEN w
    ELSE IF ~AllowModifyEntity(w, k, entityID) THEN w
    ELSE IF parentEntityID # 0 /\ ~HasEntity(w.sc, parentEntityID) THEN w
    ELSE [w1 EXCEPT !.st[k] = TouchEnt(@, entityID, LAMBDA es : [es EXCEPT !.hasParentChange = FALSE])]

\* Scene::ChangeEntityId: an entity already at the new id is purged; children follow
SceneChangeEntityId(w, old, new) ==
    IF old = new \/ ~HasEntity(w.sc, old) THEN w
    ELSE LET w1 == IF HasEntity(w.sc, new) THEN SceneRemoveEntity(w, new, LocalOnly) ELSE w
             sc1 == Put(Del(w1.sc, old), new, w1.sc[old])
         IN [w1 EXCEPT !.sc = [x \in DOMAIN sc1 |->
                                   IF sc1[x].parent = old THEN [sc1[x] EXCEPT !.parent = new] ELSE sc1[x]]]

\* Entity::ChangeComponentId
EntityChangeComponentId(w, e, old, new) ==
    IF old = new \/ ~HasComp(w.sc, e, old) THEN w
    ELSE LET w1 == IF HasComp(w.sc, e, new) THEN EntityRemoveComponent(w, e, new, LocalOnly) ELSE w
         IN [w1 EXCEPT !.sc[e].comps = Put(Del(@, old), new, @[old])]

\* the component id rewrites of a reply (2741-2757, 2803-2819)
RECURSIVE ApplyRewrites(_, _, _, _)
ApplyRewrites(w, k, e, rw) ==
    IF rw = <<>> THEN w
    ELSE LET senderCompID == OrUnacked(Head(rw)[1])
             compID == Head(rw)[2]
             w1 == EntityChangeComponentId(w, e, senderCompID, compID)
             es == EntState(w1.st[k], e)
             es1 == [es EXCEPT !.components = Del(Put(@, compID, CompState(es, senderCompID)), senderCompID)]
         IN ApplyRewrites([w1 EXCEPT !.st[k].entities = Put(@, e, es1)], k, e, Tail(rw))

RECURSIVE MarkAllComponentsDirty(_, _, _)
MarkAllComponentsDirty(s, e, cids) ==
    IF cids = <<>> THEN s
    ELSE MarkAllComponentsDirty(MarkComponentDirty(s, e, Head(cids)), e, Tail(cids))

\* the sync state of the entity moves from the unacked id to the id the server gave
MoveEntityState(s, old, new) ==
    [s EXCEPT !.entities = Del(Put(@, new, EntState(s, old)), old)]

HandleCreateEntityReply(w, k, m) ==
    IF w.st[k] = Null \/ IsServer(w.p) THEN w
    ELSE
    LET senderEntityID == OrUnacked(m.senderEntityId)
        entityID == m.entityId
    IN
    Bind([SceneChangeEntityId(w, senderEntityID, entityID)
              EXCEPT !.st[k] = MoveEntityState(RemoveFromQueue(@, senderEntityID),
                                               senderEntityID, entityID)],
         LAMBDA w2 :
            IF ~HasEntity(w2.sc, entityID) THEN w2
            ELSE [Signal(ApplyRewrites(w2, k, entityID, m.rewrites),
                         "EntityAcked", entityID, 0, 0, LocalOnly)
                    EXCEPT !.st[k] = MarkAllComponentsDirty(@, entityID,
                                         SortedSeq(DOMAIN @.entities[entityID].components))])

HandleCreateComponentsReply(w, k, m) ==
    IF w.st[k] = Null \/ IsServer(w.p) THEN w
    ELSE
    LET entityID == m.entityId
        s1 == RemoveFromQueue(w.st[k], entityID)
        w2 == [w EXCEPT !.st[k] = TouchEnt(s1, entityID, LAMBDA es : es)]
        w3 == ApplyRewrites(w2, k, entityID, m.rewrites)
    IN IF ~HasEntity(w2.sc, entityID) THEN w2
       ELSE [w3 EXCEPT !.st[k] = MarkAllComponentsDirty(@, entityID,
                                     SortedSeq(DOMAIN @.entities[entityID].components))]

\* the user connections of the server that have a sync state
SyncedConns(w) == {k \in DOMAIN w.st : w.st[k] # Null}

\* Entity::Exec(Local, ...) runs the action's handlers on this peer
HandleEntityAction(w, k, m) ==
    IF ~HasEntity(w.sc, m.entityId) THEN w
    ELSE
    LET isServer == IsServer(w.p)
        type == m.executionType
        w1 == IF HasBit(type, ExecLocal) \/ (isServer /\ HasBit(type, ExecServer))
              THEN Signal(w, "ActionExecuted", m.entityId, 0, 0, m.name) ELSE w
        queued == [m EXCEPT !.executionType = ExecLocal]
    IN IF isServer /\ HasBit(type, ExecPeers)
       THEN [w1 EXCEPT !.st = [c \in DOMAIN @ |->
                                   IF c # k /\ @[c] # Null
                                   THEN [@[c] EXCEPT !.queuedActions = Append(@, queued)]
                                   ELSE @[c]]]
       ELSE w1

\* the packet counter of the transport wraps around at PacketIdRange
PacketIdRange == 6
PacketIds == 0..(PacketIdRange - 1)

\* kNet::PacketIDIsNewerThan: the comparison of two counters that may have wrapped around
PacketIDIsNewerThan(newID, oldID) ==
    newID # oldID /\ (newID - oldID) % PacketIdRange < PacketIdRange \div 2

\* conn->GetSocket()->TransportLayer() == kNet::SocketOverUDP for the connection to the
\* server
SocketOverUDP(w, k) == IsKNet(w.p, k) /\ conn[w.p].udp

\* a message the links of the model carry in order has no packet counter: it is read as
\* counter 0 and it is never out of order
HasPacketId(m) == "packetId" \in DOMAIN m
PacketIdOf(m) == IF HasPacketId(m) THEN m.packetId ELSE 0

\* EC_RigidBody's mass is its first attribute
MassIndex == 0

\* a value between two end points at interpolation time t (thousandths of a period), the
\* nearer end point standing for the values of the curve
Blend(a, b, t) == IF t < 500 THEN a ELSE b

\* the velocity of an interpolated body: the derivative of the spline, the end velocity
\* once the spline has been passed (1307-1310)
CurrentVelocity(interp) ==
    IF interp.interpTime < 1000 THEN Blend(interp.startVel, interp.endVel, interp.interpTime)
    ELSE interp.endVel

\* RigidBodyInterpolationState after an entry for an entity with Placeable pc (1287-1353):
\* the Hermite spline's end points and the counter; a value the entry omits stays, and a
\* body without mass has no velocity
NewInterpolation(w, k, m, r, pc) ==
    LET e == r.entityId
        interps == w.st[k].entityInterpolations
        orig == w.sc[e].comps[pc].attrs[0]
        rc == CompOfType(w.sc[e], RigidBodyTypeId)
        body(i) == IF rc # 0 THEN w.sc[e].comps[rc].attrs[i] ELSE 0
        isNewtonian == rc # 0 /\ body(MassIndex) > 0
        \* an angle that quantizes to zero has no axis: the body's own value stays (1262-1279)
        newAngVel == IF r.angVelSendType = 1 /\ r.angVel # 0 THEN r.angVel
                     ELSE body(AngularVelocityIndex)
    IN IF e \in DOMAIN interps
       THEN [start |-> orig,
             end |-> IF r.posSendType # 0 THEN r.pos ELSE interps[e].end,
             startVel |-> IF ~isNewtonian THEN 0 ELSE CurrentVelocity(interps[e]),
             endVel |-> IF ~isNewtonian THEN 0
                        ELSE IF r.velSendType # 0 THEN r.vel ELSE interps[e].endVel,
             endAngVel |-> IF r.angVelSendType # 0 THEN newAngVel ELSE interps[e].endAngVel,
             interpTime |-> 0, interpolatorActive |-> TRUE,
             lastReceivedPacketCounter |-> PacketIdOf(m)]
       ELSE [start |-> orig,
             end |-> IF r.posSendType # 0 THEN r.pos ELSE orig,
             startVel |-> body(LinearVelocityIndex),
             endVel |-> IF r.velSendType # 0 THEN r.vel ELSE body(LinearVelocityIndex),
             endAngVel |-> newAngVel,
             interpTime |-> 0, interpolatorActive |-> TRUE,
             lastReceivedPacketCounter |-> PacketIdOf(m)]

\* whether the entry carries a value
AnythingChanged(r) == r.posSendType # 0 \/ r.velSendType # 0 \/ r.angVelSendType # 0

\* one entry with every packet applied
RigidBodyEntry_Unguarded(w, k, m, r) ==
    LET e == r.entityId
        pc == IF HasEntity(w.sc, e) THEN CompOfType(w.sc[e], PlaceableTypeId) ELSE 0
    IN IF ~HasEntity(w.sc, e) THEN w
       ELSE IF pc = 0 THEN Signal(w, "NullPlaceable", e, 0, 0, Replicate)
       ELSE IF ~AnythingChanged(r) THEN w
       ELSE [w EXCEPT !.st[k].entityInterpolations = Put(@, e, NewInterpolation(w, k, m, r, pc))]

\* one entry of the message (1223-1354): the update of an entity is kept as the
\* interpolation state of the connection to the server, unless the packet is out of
\* order; the Placeable of an entity that has none is read through a null pointer
RigidBodyEntry(w, k, m, r) ==
    LET e == r.entityId
        pc == IF HasEntity(w.sc, e) THEN CompOfType(w.sc[e], PlaceableTypeId) ELSE 0
        interps == w.st[k].entityInterpolations
    IN IF ~HasEntity(w.sc, e) THEN w
       ELSE IF pc = 0 THEN Signal(w, "NullPlaceable", e, 0, 0, Replicate)
       ELSE IF ~AnythingChanged(r) THEN w
       ELSE IF /\ e \in DOMAIN interps
               /\ HasPacketId(m) /\ SocketOverUDP(w, k)
               /\ PacketIDIsNewerThan(interps[e].lastReceivedPacketCounter, m.packetId)
       THEN w
       ELSE [w EXCEPT !.st[k].entityInterpolations = Put(@, e, NewInterpolation(w, k, m, r, pc))]

RECURSIVE RigidBodyEntries(_, _, _, _)
RigidBodyEntries(w, k, m, entries) ==
    IF entries = <<>> THEN w
    ELSE RigidBodyEntries(RigidBodyEntry(w, k, m, Head(entries)), k, m, Tail(entries))

\* a server has no connection to a server
HandleRigidBodyChanges(w, k, m) ==
    IF IsServer(w.p) \/ w.st[k] = Null THEN w ELSE RigidBodyEntries(w, k, m, m.entries)

\* the switch over the message id (lines 335-381)
HandleRegisterComponentType(w, k, m) ==
    IF ~ValidateAction(w, k) THEN w
    ELSE LET w1 == IF IsServer(w.p) THEN w ELSE [w EXCEPT !.ty.fromServer = @ \cup {m.typeId}]
         IN IF FactoryRegistered(w.p, m.typeId) THEN w1
            ELSE RegisterPlaceholderComponentType(w1, m.typeId, ChangeOf(w), k)

\* the cases of the switch (lines 337-380)
SwitchCase(w, k, m) ==
    CASE m.kind = "CreateEntity" -> HandleCreateEntity(w, k, m)
      [] m.kind = "CreateComponents" -> HandleCreateComponents(w, k, m)
      [] m.kind = "CreateAttributes" -> HandleCreateAttributes(w, k, m)
      [] m.kind = "EditAttributes" -> HandleEditAttributes(w, k, m)
      [] m.kind = "RemoveAttributes" -> HandleRemoveAttributes(w, k, m)
      [] m.kind = "RemoveComponents" -> HandleRemoveComponents(w, k, m)
      [] m.kind = "RemoveEntity" -> HandleRemoveEntity(w, k, m)
      [] m.kind = "CreateEntityReply" -> HandleCreateEntityReply(w, k, m)
      [] m.kind = "CreateComponentsReply" -> HandleCreateComponentsReply(w, k, m)
      [] m.kind = "RigidBodyUpdate" -> HandleRigidBodyChanges(w, k, m)
      [] m.kind = "EditEntityProperties" -> HandleEditEntityProperties(w, k, m)
      [] m.kind = "SetEntityParent" -> HandleSetEntityParent(w, k, m)
      [] m.kind = "EntityAction" -> HandleEntityAction(w, k, m)
      [] m.kind = "RegisterComponentType" -> HandleRegisterComponentType(w, k, m)

HandledKinds ==
    {"CreateEntity", "CreateComponents", "CreateAttributes", "EditAttributes", "RemoveAttributes",
     "RemoveComponents", "RemoveEntity", "CreateEntityReply", "CreateComponentsReply",
     "RigidBodyUpdate", "EditEntityProperties", "SetEntityParent", "EntityAction",
     "RegisterComponentType"}

\* a switch whose default case throws
Dispatch_Default(w, k, m) ==
    IF m.kind \in HandledKinds THEN SwitchCase(w, k, m) ELSE [w EXCEPT !.exc = TRUE]

\* the switch has no default case: any other id falls through (line 381)
Dispatch(w, k, m) == IF m.kind \in HandledKinds THEN SwitchCase(w, k, m) ELSE w

\* a catch block that logs the exception and keeps the connection
CatchNetException_Keep(r, k) == [r EXCEPT !.exc = FALSE]

\* the catch block: a codec exception disconnects the sender (lines 383-387)
CatchNetException(r, k) == IF r.exc THEN [r EXCEPT !.exc = FALSE, !.disc = @ \cup {k}] ELSE r

HandleNetworkMessage(w, k, m) == CatchNetException(Dispatch(w, k, m), k)

-----------------------------------------------------------------------------
(* Connection set-up and the periodic update.                              *)

\* the update interval the prioritizer gives an entity, in ticks
PrioritizedInterval == 1

RECURSIVE MarkAllDirty(_, _)
MarkAllDirty(s, eids) ==
    IF eids = <<>> THEN s
    ELSE LET e == Head(eids)
             s1 == MarkEntityDirty(s, e, FALSE, FALSE)
             s2 == IF prioritizer THEN [s1 EXCEPT !.entities[e].interval = PrioritizedInterval] ELSE s1
         IN MarkAllDirty(s2, Tail(eids))

NewUserConnected(w, k) ==
    [w EXCEPT !.st[k] = MarkAllDirty(NewSyncState, SortedSeq({e \in DOMAIN w.sc : ~IsLocalId(e)}))]

\* one entry of a RigidBodyUpdate message: the send types tell which values it carries
RigidBodyEntryOf(e, posSendType, pos, velSendType, vel, angVelSendType, angVel) ==
    [entityId |-> e, posSendType |-> posSendType, pos |-> pos, velSendType |-> velSendType,
     vel |-> vel, angVelSendType |-> angVelSendType, angVel |-> angVel]

\* one entity of the rigid-body pass (1040-1211); acc.s is the sync state, acc.entries
\* the message body, acc.reliable the message's msgReliable.  A message holds more
\* entries than the scenes of the model have entities, so it is never sent early.
RECURSIVE RigidBodyLoop(_, _, _)
RigidBodyLoop(acc, sc, queue) ==
    IF queue = <<>> THEN acc
    ELSE
    LET e == Head(queue)
        ess == acc.s.entities[e]
        next(a) == RigidBodyLoop(a, sc, Tail(queue))
        pc == CompOfType(sc[e], PlaceableTypeId)
        tracked == pc # 0 /\ pc \in DOMAIN ess.components
                   /\ ~ess.components[pc].isNew /\ ~ess.components[pc].removed
        transformDirty == tracked /\ 0 \in ess.components[pc].dirtyAttributes
        ess1 == IF tracked THEN [ess EXCEPT !.components[pc].dirtyAttributes = @ \ {0}] ELSE ess
        rc == CompOfType(sc[e], RigidBodyTypeId)
        rtracked == rc # 0 /\ rc \in DOMAIN ess.components
                    /\ ~ess.components[rc].isNew /\ ~ess.components[rc].removed
        linearVel == IF rc # 0 THEN sc[e].comps[rc].attrs[LinearVelocityIndex] ELSE 0
        angVel == IF rc # 0 THEN sc[e].comps[rc].attrs[AngularVelocityIndex] ELSE 0
        rest == rtracked /\ linearVel = 0 /\ ess.linearVelocity # 0
        angRest == rtracked /\ angVel = 0 /\ ess.angularVelocity # 0
        velocityDirty ==
            \/ rtracked /\ LinearVelocityIndex \in ess.components[rc].dirtyAttributes
                        /\ linearVel # ess.linearVelocity
            \/ rest
        angularVelocityDirty ==
            \/ rtracked /\ AngularVelocityIndex \in ess.components[rc].dirtyAttributes
                        /\ angVel # ess.angularVelocity
            \/ angRest
        ess2 == IF rtracked
                THEN [ess1 EXCEPT !.components[rc].dirtyAttributes =
                                      @ \ {LinearVelocityIndex, AngularVelocityIndex}]
                ELSE ess1
        cleared == [acc EXCEPT !.s.entities[e] = ess2, !.reliable = @ \/ rest \/ angRest]
        timeSinceLastSend == clock - ess.lastNetworkSendTime
        t == sc[e].comps[pc].attrs[0]
        posChanged == transformDirty /\ Significant(t, ess.transform)
    IN
    IF e \notin DOMAIN acc.s.entities THEN next(acc)
    ELSE IF ess.isNew \/ ess.removed THEN next(acc)
    ELSE IF ~HasEntity(sc, e) THEN next([acc EXCEPT !.crash = TRUE])
    ELSE IF pc = 0 THEN next(acc)
    ELSE IF ~transformDirty /\ ~velocityDirty /\ ~angularVelocityDirty THEN next(cleared)
    ELSE IF prioritizer /\ timeSinceLastSend < ess.interval THEN next(cleared)
    ELSE IF ~posChanged /\ ~velocityDirty /\ ~angularVelocityDirty THEN next(cleared)
    ELSE next([cleared EXCEPT
                 !.s.entities[e] =
                     [ess2 EXCEPT !.transform = IF posChanged THEN t ELSE @,
                                  !.linearVelocity = IF velocityDirty THEN linearVel ELSE @,
                                  !.angularVelocity = IF angularVelocityDirty THEN angVel ELSE @,
                                  !.lastNetworkSendTime = clock],
                 !.entries = Append(@, RigidBodyEntryOf(e, IF posChanged THEN 1 ELSE 0,
                                                        IF posChanged THEN t ELSE 0,
                                                        IF velocityDirty THEN 1 ELSE 0,
                                                        IF velocityDirty THEN linearVel ELSE 0,
                                                        IF angularVelocityDirty THEN 1 ELSE 0,
                                                        IF angularVelocityDirty THEN angVel ELSE 0))])

\* a rigid-body pass that leaves the dirty bits to the generic pass
ReplicateRigidBodyChanges_KeepBits(w, k) ==
    Bind(RigidBodyLoop([s |-> w.st[k], entries |-> <<>>, reliable |-> FALSE, crash |-> FALSE],
                       w.sc, w.st[k].dirtyQueue),
         LAMBDA acc :
            SendIf([w EXCEPT !.st[k].entities =
                                 [e \in DOMAIN acc.s.entities |->
                                     [acc.s.entities[e] EXCEPT
                                         !.components = w.st[k].entities[e].components]]],
                   k, acc.entries # <<>>,
                   [kind |-> "RigidBodyUpdate", reliable |-> acc.reliable, entries |-> acc.entries]))

ReplicateRigidBodyChanges(w, k) ==
    Bind(RigidBodyLoop([s |-> w.st[k], entries |-> <<>>, reliable |-> FALSE, crash |-> FALSE],
                       w.sc, w.st[k].dirtyQueue),
         LAMBDA acc :
            SendIf(IF acc.crash
                   THEN Signal([w EXCEPT !.st[k] = acc.s], "NullEntity", 0, 0, 0, Replicate)
                   ELSE [w EXCEPT !.st[k] = acc.s],
                   k, acc.entries # <<>>,
                   [kind |-> "RigidBodyUpdate", reliable |-> acc.reliable, entries |-> acc.entries]))

\* std::list<EntitySyncState*>::sort(): the queue in the order ord gives the states
RECURSIVE SortBy(_, _)
SortBy(q, ord) ==
    IF ord = <<>> THEN <<>>
    ELSE SelectSeq(q, LAMBDA x : x = Head(ord)) \o SortBy(q, Tail(ord))

Perms(S) == {f \in [1..Cardinality(S) -> S] : \A i, j \in 1..Cardinality(S) : f[i] = f[j] => i = j}

SeqRange(q) == {q[i] : i \in 1..Len(q)}

\* EC_RigidBody::SetClientExtrapolating: mgr.clientExtrapolating holds the entities whose
\* rigid body the local physics simulates
SetClientExtrapolating(w, e, on) ==
    [w EXCEPT !.mgr.clientExtrapolating = IF on THEN @ \cup {e} ELSE @ \ {e}]

\* the body of the loop of InterpolateRigidBodies for entity e, frametime in milliseconds
InterpolateRigidBody(w, k, e, frametime) ==
    LET pc == IF HasEntity(w.sc, e) THEN CompOfType(w.sc[e], PlaceableTypeId) ELSE 0
        rc == IF HasEntity(w.sc, e) THEN CompOfType(w.sc[e], RigidBodyTypeId) ELSE 0
        r == w.st[k].entityInterpolations[e]
        t == r.interpTime + (frametime * 1000) \div w.mgr.updatePeriod
        isNewtonian == rc # 0 /\ w.sc[e].comps[rc].attrs[MassIndex] > 0
        pos == IF t < 1000 THEN Blend(r.start, r.end, t)
               ELSE IF isNewtonian /\ w.mgr.maxLinExtrapTime > 1000
               THEN r.end + (r.endVel * (t - 1000)) \div 1000
               ELSE r.end
        w1 == AttrSet([w EXCEPT !.st[k].entityInterpolations[e].interpTime = t], e, pc, 0, pos, LocalOnly)
        handOff == IF rc # 0 /\ ~w.mgr.noClientPhysicsHandoff
                   THEN AttrSet(AttrSet(SetClientExtrapolating(w1, e, r.endVel # 0 \/ r.endAngVel # 0),
                                        e, rc, LinearVelocityIndex, r.endVel, LocalOnly),
                                e, rc, AngularVelocityIndex, r.endAngVel, LocalOnly)
                   ELSE w1
        driven == IF rc # 0
                  THEN AttrSet(AttrSet(SetClientExtrapolating(w1, e, FALSE),
                                       e, rc, LinearVelocityIndex,
                                       Blend(r.startVel, r.endVel, t), LocalOnly),
                               e, rc, AngularVelocityIndex, 0, LocalOnly)
                  ELSE w1
    IN IF pc = 0 THEN [w EXCEPT !.st[k].entityInterpolations = Del(@, e)]
       ELSE IF ~r.interpolatorActive THEN w
       ELSE IF t >= w.mgr.maxLinExtrapTime
       THEN [handOff EXCEPT !.st[k].entityInterpolations[e].interpolatorActive = FALSE]
       ELSE driven

RECURSIVE InterpolateLoop(_, _, _, _)
InterpolateLoop(w, k, es, frametime) ==
    IF es = <<>> THEN w
    ELSE InterpolateLoop(InterpolateRigidBody(w, k, Head(es), frametime), k, Tail(es), frametime)

\* SyncManager::InterpolateRigidBodies (838-946) for the connection k to the server
InterpolateRigidBodies(w, k, frametime) ==
    IF w.st[k] = Null THEN w
    ELSE InterpolateLoop(w, k, SortedSeq(DOMAIN w.st[k].entityInterpolations), frametime)

\* lines 983-990: when the accumulated time has reached the period it is reduced
\* modulo the period and the prioritizer computes the priorities of connection k's
\* entities
ComputeSyncPriorities(w, k) ==
    IF w.mgr.prioUpdateAcc >= w.mgr.priorityUpdatePeriod
    THEN Signal([w EXCEPT !.mgr.prioUpdateAcc = @ % w.mgr.priorityUpdatePeriod],
                "ComputeSyncPriorities", 0, 0, 0, k)
    ELSE w

\* the server's loop over its user connections (970-1006)
RECURSIVE UpdateUsers(_, _, _)
UpdateUsers(w, users, ord) ==
    IF users = <<>> \/ w.mgr.stuck THEN w
    ELSE LET k == Head(users)
             w1 == IF prioritizer
                   THEN [ComputeSyncPriorities(w, k) EXCEPT !.st[k].dirtyQueue = SortBy(@, ord),
                                  !.st[k].entities = [e \in DOMAIN @ |->
                                        [@[e] EXCEPT !.interval = PrioritizedInterval]]]
                   ELSE w
             w2 == IF conn[k].kNet \/ conn[k].protocolVersion >= ProtocolWebClientRigidBodyMessage
                   THEN ReplicateRigidBodyChanges(w1, k) ELSE w1
         IN IF w.st[k] = Null THEN UpdateUsers(w, Tail(users), ord)
            ELSE UpdateUsers(ProcessSyncState(w2, k), Tail(users), ord)


\* SyncManager::Update once the update period has passed
UpdateWorld(w, ord) ==
    IF IsServer(w.p) THEN UpdateUsers(w, ClientSeq, ord)
    ELSE IF w.st[Server] = Null THEN w
    ELSE ProcessSyncState(w, Server)

-----------------------------------------------------------------------------
(* The application's calls on a scene.  An op names the call and its       *)
(* arguments.                                                              *)

\* Entity::Exec: the action's handlers run here when the type has Local, then the
\* ActionTriggered signal reaches the tracker
EntityExec(w, e, name, type) ==
    OnActionTriggered(IF HasBit(type, ExecLocal)
                      THEN Signal(w, "ActionExecuted", e, 0, 0, name) ELSE w,
                      e, name, type)

OpEnabled(w, op) ==
    CASE op.kind = "CreateEntity" ->
            IF op.local THEN TRUE
            ELSE IF IsServer(w.p) THEN w.gen.r < LAST_REPLICATED_ID
            ELSE w.gen.u < LAST_REPLICATED_ID
      [] op.kind = "CreateEntityWithId" ->
            \* Scene::CreateEntity(id) with an id the generator has handed out before
            ~HasEntity(w.sc, op.e) /\ IsServer(w.p) /\ op.e \in 1..w.gen.r
      [] op.kind = "RemoveEntity" -> HasEntity(w.sc, op.e)
      [] op.kind = "CreateComponent" ->
            /\ HasEntity(w.sc, op.e)
            /\ (FactoryRegistered(w.p, op.t) \/ op.t \in w.ty.placeholders)
            /\ NextCompId(w, op.e, op.local) < (IF op.local THEN FIRST_LOCAL_ID + FIRST_UNACKED_ID
                                                 ELSE IF IsServer(w.p) THEN FIRST_UNACKED_ID
                                                 ELSE FIRST_LOCAL_ID)
      [] op.kind = "RemoveComponent" -> HasComp(w.sc, op.e, op.c)
      [] op.kind = "SetAttribute" -> HasAttr(w.sc, op.e, op.c, op.i) /\ w.sc[op.e].comps[op.c].attrs[op.i] # op.v
      [] op.kind = "CreateAttribute" -> CanCreateAttribute(w, op.e, op.c, op.i) /\ ~HasAttr(w.sc, op.e, op.c, op.i)
      [] op.kind = "RemoveAttribute" ->
            HasAttr(w.sc, op.e, op.c, op.i) /\ IsDynamicAttr(w.sc[op.e].comps[op.c], op.i)
      [] op.kind = "SetTemporary" -> HasEntity(w.sc, op.e) /\ w.sc[op.e].temporary # op.enable
      [] op.kind = "SetParent" ->
            /\ HasEntity(w.sc, op.e)
            /\ op.parent = 0 \/ HasEntity(w.sc, op.parent)
            /\ EntitySetParent(w, op.e, op.parent, op.change) # w
      [] op.kind = "Exec" -> HasEntity(w.sc, op.e)
      [] op.kind = "RegisterType" -> op.t \in PlaceholderTypes
      [] OTHER -> FALSE

NewEntityId(w, local) ==
    IF local THEN FIRST_LOCAL_ID + w.gen.l + 1
    ELSE IF IsServer(w.p) THEN w.gen.r + 1
    ELSE FIRST_UNACKED_ID + w.gen.u + 1

ApplyOp(w, op) ==
    CASE op.kind = "CreateEntity" ->
            LET id == NewEntityId(w, op.local)
                w1 == [w EXCEPT !.gen = IF op.local THEN [@ EXCEPT !.l = @ + 1]
                                        ELSE IF IsServer(w.p) THEN [@ EXCEPT !.r = @ + 1]
                                        ELSE [@ EXCEPT !.u = @ + 1]]
            IN EmitEntityCreated(SceneCreateEntity(w1, id), id, op.change)
      [] op.kind = "CreateEntityWithId" ->
            EmitEntityCreated(SceneCreateEntity(w, op.e), op.e, op.change)
      [] op.kind = "RemoveEntity" -> SceneRemoveEntity(w, op.e, op.change)
      [] op.kind = "CreateComponent" ->
            EntityCreateComponent(w, op.e, NextCompId(w, op.e, op.local), op.t, op.change)
      [] op.kind = "RemoveComponent" -> EntityRemoveComponent(w, op.e, op.c, op.change)
      [] op.kind = "SetAttribute" -> AttrSet(w, op.e, op.c, op.i, op.v, op.change)
      [] op.kind = "CreateAttribute" -> ComponentCreateAttribute(w, op.e, op.c, op.i, op.change)
      [] op.kind = "RemoveAttribute" -> ComponentRemoveAttribute(w, op.e, op.c, op.i, op.change)
      [] op.kind = "SetTemporary" -> EntitySetTemporary(w, op.e, op.enable, op.change)
      [] op.kind = "SetParent" -> EntitySetParent(w, op.e, op.parent, op.change)
      [] op.kind = "Exec" -> EntityExec(w, op.e, op.name, op.type)
      [] op.kind = "RegisterType" -> RegisterPlaceholderComponentType(w, op.t, op.change, NoConnection)

OpCreateEntity(local, change) == [kind |-> "CreateEntity", local |-> local, change |-> change]
OpCreateEntityWithId(e, change) == [kind |-> "CreateEntityWithId", e |-> e, change |-> change]
OpRemoveEntity(e, change) == [kind |-> "RemoveEntity", e |-> e, change |-> change]
OpCreateComponent(e, t, local, change) ==
    [kind |-> "CreateComponent", e |-> e, t |-> t, local |-> local, change |-> change]
OpRemoveComponent(e, c, change) == [kind |-> "RemoveComponent", e |-> e, c |-> c, change |-> change]
OpSetAttribute(e, c, i, v, change) ==
    [kind |-> "SetAttribute", e |-> e, c |-> c, i |-> i, v |-> v, change |-> change]
OpCreateAttribute(e, c, i, change) ==
    [kind |-> "CreateAttribute", e |-> e, c |-> c, i |-> i, change |-> change]
OpRemoveAttribute(e, c, i, change) ==
    [kind |-> "RemoveAttribute", e |-> e, c |-> c, i |-> i, change |-> change]
OpSetTemporary(e, enable, change) ==
    [kind |-> "SetTemporary", e |-> e, enable |-> enable, change |-> change]
OpSetParent(e, parent, change) == [kind |-> "SetParent", e |-> e, parent |-> parent, change |-> change]
OpExec(e, name, type) == [kind |-> "Exec", e |-> e, name |-> name, type |-> type]
OpRegisterType(t, change) == [kind |-> "RegisterType", t |-> t, change |-> change]

-----------------------------------------------------------------------------
(* The state machine.  scene[p], st[p] and gen[p] are peer p's scene, sync *)
(* states and id generators; conn[c] the properties of client c's          *)
(* connection; net[<<p, q>>] the messages in flight from p to q; allow the *)
(* AllowModifyEntity policy; clock the time in update periods; prioritizer *)
(* whether interest management is installed; ev what the last step did.    *)

\* mgr[p] holds the fields of peer p's SyncManager: the periods in milliseconds,
\* maxLinExtrapTime in thousandths of an update period, the command line it was started
\* with
NoCommandLine == [clientextrapolationtime |-> Null, noclientphysics |-> FALSE]

\* SyncManager::GetClientExtrapolationTime; the parameter is absent (Null), or a text
\* that toFloat converts (ok) to value or does not
GetClientExtrapolationTime(m) ==
    LET x == m.commandLine.clientextrapolationtime
    IN IF x # Null /\ x.ok /\ x.value >= 0
       THEN [m EXCEPT !.maxLinExtrapTime = 1000 + (x.value * 1000) \div m.updatePeriod]
       ELSE m

\* the constructor
NewSyncManager(cmd) ==
    GetClientExtrapolationTime(
        [updatePeriod |-> 50, maxLinExtrapTime |-> 3000, noClientPhysicsHandoff |-> cmd.noclientphysics,
         prioUpdateAcc |-> 0, priorityUpdatePeriod |-> 1000, commandLine |-> cmd,
         clientExtrapolating |-> {}, stuck |-> FALSE])

SetPriorityUpdatePeriod(m, period) ==
    [m EXCEPT !.priorityUpdatePeriod = IF period < m.updatePeriod THEN m.updatePeriod ELSE period]

\* the update period is set and the extrapolation time is left as it was
SetUpdatePeriod_KeepExtrapolation(m, period) ==
    [m EXCEPT !.updatePeriod = IF period < 10 THEN 10 ELSE period]

SetUpdatePeriod(m, period) ==
    GetClientExtrapolationTime([m EXCEPT !.updatePeriod = IF period < 10 THEN 10 ELSE period])

Links == {<<Server, c>> : c \in Clients} \cup {<<c, Server>> : c \in Clients}

NewConn ==
    [connected |-> FALSE, authenticated |-> FALSE, protocolVersion |-> ProtocolWebClientRigidBodyMessage,
     kNet |-> TRUE, udp |-> TRUE, unackedIdsToRealIds |-> EmptyMap]

NoEvent ==
    [op |-> "Init", p |-> Server, k |-> Server, m |-> Null, sig |-> {}, out |-> <<>>,
     changed |-> {}, stSame |-> TRUE, lost |-> FALSE]

\* the entities of a scene that a step changed, added or removed
Changed(sc0, sc1) ==
    {e \in DOMAIN sc0 \cup DOMAIN sc1 : e \notin DOMAIN sc0 \/ e \notin DOMAIN sc1 \/ sc0[e] # sc1[e]}

\* the attribute dirty bits and new/removed records of a sync state
DirtyBits(s) ==
    IF s = Null THEN {}
    ELSE UNION {UNION {{<<e, c, i, "dirty">> : i \in s.entities[e].components[c].dirtyAttributes}
                       \cup {<<e, c, i, IF s.entities[e].components[c].newAndRemovedAttributes[i]
                                        THEN "created" ELSE "removed">> :
                                 i \in DOMAIN s.entities[e].components[c].newAndRemovedAttributes} :
                       c \in DOMAIN s.entities[e].components} : e \in DOMAIN s.entities}

\* the attributes a message carries, as <<entity, component, index>> with masked ids
CompBits(e, mc) ==
    {<<e, mc.compId, i>> : i \in 0..(Len(mc.static) - 1)}
    \cup {<<e, mc.compId, mc.dynamic[j].index>> : j \in 1..Len(mc.dynamic)}

EditBits(e, b) ==
    IF b.method = 0 THEN {<<e, b.compId, b.list[j].index>> : j \in 1..Len(b.list)}
    ELSE {<<e, b.compId, j - 1>> : j \in {x \in 1..Len(b.list) : b.list[x].changed}}

MsgBits(sc, m) ==
    CASE m.kind \in {"CreateEntity", "CreateComponents"} ->
            UNION {CompBits(MaskId(m.entityId), m.comps[j]) : j \in 1..Len(m.comps)}
      [] m.kind \in {"CreateAttributes", "RemoveAttributes"} ->
            {<<MaskId(m.entityId), m.attrs[j].compId, m.attrs[j].index>> : j \in 1..Len(m.attrs)}
      [] m.kind = "EditAttributes" ->
            UNION {EditBits(MaskId(m.entityId), m.comps[j]) : j \in 1..Len(m.comps)}
      [] m.kind = "RigidBodyUpdate" ->
            UNION {LET r == m.entries[j]
                       comp(t) == IF HasEntity(sc, r.entityId) THEN CompOfType(sc[r.entityId], t) ELSE 0
                   IN (IF r.posSendType # 0
                       THEN {<<MaskId(r.entityId), comp(PlaceableTypeId), 0>>} ELSE {})
                      \cup (IF r.velSendType # 0
                            THEN {<<MaskId(r.entityId), comp(RigidBodyTypeId), LinearVelocityIndex>>}
                            ELSE {})
                      \cup (IF r.angVelSendType # 0
                            THEN {<<MaskId(r.entityId), comp(RigidBodyTypeId), AngularVelocityIndex>>}
                            ELSE {}) :
                   j \in 1..Len(m.entries)}
      [] OTHER -> {}

\* whether the step from sync states st0 to w.st cleared, for some connection, a bit or
\* record of a component state that is still there, of an attribute whose change is still
\* to be told, without the bit being in a message sent to the connection or in received
Lost(st0, w, received) ==
    \E k \in DOMAIN st0 :
        /\ w.st[k] # Null
        /\ \E b \in DirtyBits(st0[k]) \ DirtyBits(w.st[k]) :
              /\ b[1] \in DOMAIN w.st[k].entities
              /\ b[2] \in DOMAIN w.st[k].entities[b[1]].components
              /\ b[4] = "removed" \/ HasAttr(w.sc, b[1], b[2], b[3])
              /\ <<MaskId(b[1]), MaskId(b[2]), b[3]>> \notin
                    received \cup UNION {MsgBits(w.sc, w.out[j][2]) :
                                            j \in {x \in 1..Len(w.out) : w.out[x][1] = k}}

\* the messages a handler sent on one link, none to a connection that is closed
OutTo(w, q) ==
    LET k == IF IsServer(w.p) THEN q ELSE Server
        c == IF IsServer(w.p) THEN q ELSE w.p
        sel == SelectSeq(w.out, LAMBDA x : x[1] = k)
    IN IF ~conn[c].connected \/ k \in w.disc THEN <<>>
       ELSE [j \in 1..Len(sel) |-> sel[j][2]]

\* a handler's world becomes the peer's state; a disconnected connection loses its
\* sync state and the messages in flight on it; obs tells whether ev observes the step
Commit(w, op, k, m, received, rest, obs) ==
    LET gone == IF IsServer(w.p) THEN w.disc ELSE IF w.disc # {} THEN {w.p} ELSE {}
    IN
    /\ ~mgr[w.p].stuck
    /\ scene' = [scene EXCEPT ![w.p] = w.sc]
    /\ st' = [q \in Peers |->
                 IF q = w.p
                 THEN [x \in DOMAIN w.st |-> IF x \in w.disc THEN Null ELSE w.st[x]]
                 ELSE st[q]]
    /\ gen' = [gen EXCEPT ![w.p] = w.gen]
    /\ types' = [types EXCEPT ![w.p] = w.ty]
    /\ conn' = [c \in Clients |->
                   [conn[c] EXCEPT !.unackedIdsToRealIds = IF IsServer(w.p) THEN w.un[c] ELSE @,
                                   !.connected = @ /\ c \notin gone]]
    /\ net' = [l \in Links |->
                  IF l[1] \in gone \/ l[2] \in gone THEN <<>>
                  ELSE IF l[1] = w.p THEN (IF l = rest.link THEN rest.queue ELSE net[l]) \o OutTo(w, l[2])
                  ELSE IF l = rest.link THEN rest.queue ELSE net[l]]
    /\ \A l \in Links : Len(net'[l]) <= MaxNet
    /\ ev' = IF obs
             THEN [op |-> op, p |-> w.p, k |-> k, m |-> m, sig |-> w.sig, out |-> w.out,
                   changed |-> Changed(scene[w.p], w.sc), stSame |-> w.st = st[w.p],
                   lost |-> Lost(st[w.p], w, received)]
             ELSE [NoEvent EXCEPT !.op = op]
    /\ mgr' = [mgr EXCEPT ![w.p] = w.mgr]
    /\ UNCHANGED <<allow, clock, prioritizer>>

NoLink == [link |-> <<Server, Server>>, queue |-> <<>>]

\* a client logs in: the server admits the connection, the client starts with an empty
\* sync state for its connection to the server
Connect(c, proto, knet) ==
    /\ ~conn[c].connected
    /\ scene[c] = EmptyMap
    /\ scene' = scene
    /\ st' = [st EXCEPT ![Server] = NewUserConnected(World(Server), c).st,
                        ![c] = [x \in {Server} |-> NewSyncState]]
    /\ conn' = [conn EXCEPT ![c] = [NewConn EXCEPT !.connected = TRUE, !.authenticated = TRUE,
                                                   !.protocolVersion = proto, !.kNet = knet]]
    /\ ev' = [NoEvent EXCEPT !.op = "Connect", !.k = c]
    /\ UNCHANGED <<net, gen, types, allow, clock, prioritizer, mgr>>

\* the ids in the dirty queues of a peer
QueuedIds(p) == UNION {SeqRange(st[p][k].dirtyQueue) : k \in {x \in DOMAIN st[p] : st[p][x] # Null}}

\* SyncManager::Update at peer p
\* a pass that neither sends nor changes the sync states is not a step
CommitUpdate(w, obs) ==
    /\ w.out # <<>> \/ w.st # st[w.p] \/ w.mgr # mgr[w.p]
    /\ Commit(w, "Update", Server, Null, {}, NoLink, obs)

\* what the reads of freed entity sync states can yield in a pass of peer p: both
\* outcomes when a queued entity is gone from the scene with no removal marked
FreedReads(p) ==
    IF \E k \in DOMAIN st[p] : /\ st[p][k] # Null
                               /\ \E j \in 1..Len(st[p][k].dirtyQueue) :
                                    LET e == st[p][k].dirtyQueue[j]
                                    IN /\ e \notin DOMAIN scene[p]
                                       /\ e \in DOMAIN st[p][k].entities
                                       /\ ~st[p][k].entities[e].removed
    THEN {"stale", "overwritten"}
    ELSE {"stale"}

Update(p, obs) ==
    /\ p \in Clients => conn[p].connected
    /\ \E ord \in IF IsServer(p) /\ prioritizer THEN Perms(QueuedIds(p)) ELSE {<<>>} :
          \E ub \in FreedReads(p) :
              CommitUpdate(UpdateWorld([World(p) EXCEPT !.ub = ub], ord), obs)

\* SyncManager::Update(frametime) at a client: the interpolator runs, and the sync pass
\* when the frame completes an update period
UpdateFrame(w, frametime, tick) ==
    LET w1 == IF IsServer(w.p) THEN w ELSE InterpolateRigidBodies(w, Server, frametime)
    IN IF tick THEN UpdateWorld(w1, <<>>) ELSE w1

\* a frame that changes nothing is not a step
CommitFrame(w, obs) ==
    /\ w.out # <<>> \/ w.st # st[w.p] \/ w.sc # scene[w.p] \/ w.mgr # mgr[w.p]
    /\ Commit(w, "Frame", Server, Null, {}, NoLink, obs)

\* a frame of client p after frametime milliseconds; a frame shorter than the update
\* period may or may not complete one
Frame(p, frametime, obs) ==
    /\ p \in Clients
    /\ conn[p].connected
    /\ \E tick \in IF frametime >= mgr[p].updatePeriod THEN {TRUE} ELSE BOOLEAN :
          \E ub \in FreedReads(p) :
              CommitFrame(UpdateFrame([World(p) EXCEPT !.ub = ub], frametime, tick), obs)

\* peer q receives the next message from peer p
CommitDeliver(w, k, m, l, obs) ==
    Commit(w, "Deliver", k, m, MsgBits(w.sc, m), [link |-> l, queue |-> Tail(net[l])], obs)

Deliver(p, q, obs) ==
    LET k == IF IsServer(q) THEN p ELSE Server
        m == Head(net[<<p, q>>])
    IN /\ <<p, q>> \in Links
       /\ net[<<p, q>>] # <<>>
       /\ CommitDeliver(HandleNetworkMessage(World(q), k, m), k, m, <<p, q>>, obs)

\* the application at peer p calls the scene
Local(p, op, obs) ==
    /\ OpEnabled(World(p), op)
    /\ Commit(ApplyOp(World(p), op), "Local", Server, op, {}, NoLink, obs)

Tick ==
    /\ clock < MaxClock
    /\ clock' = clock + 1
    /\ mgr' = [p \in Peers |-> [mgr[p] EXCEPT !.prioUpdateAcc = @ + mgr[p].updatePeriod]]
    /\ ev' = [NoEvent EXCEPT !.op = "Tick"]
    /\ UNCHANGED <<scene, st, conn, net, gen, types, allow, prioritizer>>

-----------------------------------------------------------------------------
(* Initial states and the scenes an application builds.                    *)

\* the state after construction, the connections being c0 and the SyncManagers m0
InitBase(c0, m0) ==
    /\ scene = [p \in Peers |-> EmptyMap]
    /\ st = [p \in Peers |-> [k \in ConnsOf(p) |-> Null]]
    /\ conn = c0
    /\ net = [l \in Links |-> <<>>]
    /\ gen = [p \in Peers |-> [r |-> 0, u |-> 0, l |-> 0]]
    /\ types = [p \in Peers |-> NewTypes]
    /\ allow = [c \in Clients |-> 0..LAST_REPLICATED_ID]
    /\ clock = 0
    /\ mgr = m0
    /\ ev = NoEvent

InitOver(c0) == InitBase(c0, [p \in Peers |-> NewSyncManager(NoCommandLine)])

InitAll == InitOver([c \in Clients |-> NewConn])

EntityIds(p) == DOMAIN scene[p]
ReplicatedIds(p) == {e \in DOMAIN scene[p] : ~IsLocalId(e)}

\* the calls that build a scene within the bounds
BuildOps(p) ==
    {OpCreateEntity(local, Replicate) : local \in {b \in BOOLEAN :
        IF b THEN gen[p].l < 1 ELSE (IF IsServer(p) THEN gen[p].r ELSE gen[p].u) < MaxEnts}}
    \cup {OpCreateComponent(e, t, local, Replicate) :
            e \in {x \in EntityIds(p) : Cardinality(DOMAIN scene[p][x].comps) < MaxComps},
            t \in {2, PlaceableTypeId}, local \in BOOLEAN}
    \cup {OpSetParent(e, v, Replicate) : e \in ReplicatedIds(p), v \in ReplicatedIds(p)}

\* the calls on the attributes of replicated components
AttributeOps(p, change) ==
    UNION {UNION {{OpSetAttribute(e, c, 0, v, change) : v \in Values}
                  \cup {OpCreateAttribute(e, c, 0, change)} :
                  c \in {x \in DOMAIN scene[p][e].comps : ~IsLocalId(x)}} : e \in EntityIds(p)}

-----------------------------------------------------------------------------
(* Initial synchronization: the server's application builds a scene, then  *)
(* a client connects and the scene is replicated to it.                    *)

NoClient == \A c \in Clients : ~conn[c].connected /\ scene[c] = EmptyMap

SyncBuild ==
    NoClient /\ \E op \in BuildOps(Server) \cup AttributeOps(Server, Replicate) : Local(Server, op, FALSE)

SyncConnect == NoClient /\ \E knet \in BOOLEAN : Connect("c1", IF knet THEN 4 ELSE 3, knet)

SyncUpdate == Update(Server, FALSE)

SyncDeliver == Deliver(Server, "c1", FALSE)

SyncTick == ~NoClient /\ prioritizer /\ Tick

SyncInit == InitAll /\ prioritizer \in BOOLEAN

SyncNext ==
    \/ SyncBuild
    \/ SyncConnect
    \/ SyncUpdate
    \/ SyncDeliver
    \/ SyncTick

SpecSync == SyncInit /\ [][SyncNext]_vars

\* a connection with nothing left to send or to deliver
Quiescent(c) ==
    /\ conn[c].connected
    /\ st[Server][c] # Null
    /\ st[Server][c].dirtyQueue = <<>>
    /\ net[<<Server, c>>] = <<>>

\* what replication carries of a scene: the non-local entities, their replicated
\* components and the components' types and attribute values
Replicated(sc) ==
    [e \in {x \in DOMAIN sc : ~IsLocalId(x)} |->
        [c \in {x \in DOMAIN sc[e].comps : ~IsLocalId(x)} |->
            [typeId |-> sc[e].comps[c].typeId, attrs |-> sc[e].comps[c].attrs]]]

\* C1: once a newly admitted connection's dirty queue is empty and every message is
\* delivered, the client's scene holds exactly the server's non-local entities, each with
\* the same replicated components and attribute values, and none of the local entities
C1_InitialSyncEqual ==
    \A c \in Clients : Quiescent(c) => Replicated(scene[c]) = Replicated(scene[Server])
                                       /\ \A e \in DOMAIN scene[c] : ~IsLocalId(e)

C1_Witness ==
    /\ Quiescent("c1")
    /\ \E e \in DOMAIN scene[Server] : IsLocalId(e)
    /\ \E e \in DOMAIN scene["c1"] : \E c \in DOMAIN scene["c1"][e].comps :
          \E i \in DOMAIN scene["c1"][e].comps[c].attrs : scene["c1"][e].comps[c].attrs[i] = 1

\* C3 as stated: once everything is delivered, every replicated entity has on the client
\* the parent it has on the server, whatever the order of child and parent in the queue
C3_ParentsEqual ==
    \A c \in Clients : Quiescent(c) =>
        \A e \in ReplicatedIds(Server) :
            HasEntity(scene[c], e) /\ ParentOf(scene[c], e) = ParentOf(scene[Server], e)

-----------------------------------------------------------------------------
(* A synchronized start: the server holds the scene sc, every client has   *)
(* connected, and the first sync pass and its messages have been handled.  *)

RECURSIVE HandleAll(_, _, _)
HandleAll(w, k, msgs) ==
    IF msgs = <<>> THEN w ELSE HandleAll(HandleNetworkMessage(w, k, Head(msgs)), k, Tail(msgs))

BlankWorld(p, sc, r) ==
    [p |-> p, sc |-> sc, st |-> [k \in ConnsOf(p) |-> IF IsServer(p) THEN Null ELSE NewSyncState],
     gen |-> [r |-> r, u |-> 0, l |-> 0], ty |-> NewTypes, sig |-> {}, out |-> <<>>,
     un |-> [k \in Clients |-> EmptyMap], exc |-> FALSE, disc |-> {}, mgr |-> mgr[p],
     ub |-> "stale"]

RECURSIVE ConnectAll(_, _)
ConnectAll(w, cs) == IF cs = <<>> THEN w ELSE ConnectAll(NewUserConnected(w, Head(cs)), Tail(cs))

\* the first pass; an interest manager leaves the queues in the order of the ids
SyncedServer(sc, r, cs) ==
    UpdateWorld(ConnectAll(BlankWorld(Server, sc, r), cs), SortedSeq({e \in DOMAIN sc : ~IsLocalId(e)}))

\* the messages of a send list addressed to connection c
RECURSIVE MessagesTo(_, _)
MessagesTo(out, c) ==
    IF out = <<>> THEN <<>>
    ELSE (IF Head(out)[1] = c THEN <<Head(out)[2]>> ELSE <<>>) \o MessagesTo(Tail(out), c)

SyncedClient(c, out) == HandleAll(BlankWorld(c, EmptyMap, 0), Server, MessagesTo(out, c))

\* the server application has built the scene sc, the clients cs log in one after the
\* other, and the first sync pass and its messages are handled
SyncedStart(sc, r, cs) ==
    /\ \A c \in Clients : ~conn[c].connected
    /\ Bind(SyncedServer(sc, r, cs), LAMBDA srv :
        Bind([c \in SeqRange(cs) |-> SyncedClient(c, srv.out)], LAMBDA cl :
            /\ scene' = [p \in Peers |-> IF IsServer(p) THEN sc
                                         ELSE IF p \in SeqRange(cs) THEN cl[p].sc ELSE scene[p]]
            /\ st' = [p \in Peers |-> IF IsServer(p) THEN srv.st
                                      ELSE IF p \in SeqRange(cs) THEN cl[p].st ELSE st[p]]))
    /\ gen' = [gen EXCEPT ![Server].r = r]
    /\ conn' = [c \in Clients |->
                   IF c \in SeqRange(cs) THEN [conn[c] EXCEPT !.connected = TRUE, !.authenticated = TRUE]
                   ELSE conn[c]]
    /\ ev' = [NoEvent EXCEPT !.op = "Start"]
    /\ UNCHANGED <<net, types, allow, clock, prioritizer, mgr>>

\* entity 1 with component 1 (dynamic attributes, attribute 0 present) and entity 2
BaseScene ==
    LET comp == [typeId |-> 2, attrs |-> Put(EmptyMap, 0, 0)]
    IN Put(Put(EmptyMap, 1, [NewEntity EXCEPT !.comps = Put(EmptyMap, 1, comp), !.genR = 1]), 2, NewEntity)

-----------------------------------------------------------------------------
(* Echo suppression: client c1's application changes its scene; the server *)
(* and client c2 only replicate.                                           *)

EchoInit == InitAll /\ prioritizer = FALSE

EchoStart == SyncedStart(BaseScene, 2, ClientSeq)

\* the calls of an application on the entities of its scene, with one change kind
SceneOps(p, change) ==
    {OpCreateComponent(e, t, FALSE, change) :
            e \in {x \in EntityIds(p) : /\ Cardinality(DOMAIN scene[p][x].comps) < MaxComps
                                        /\ scene[p][x].genU < MaxComps},
            t \in {1, 2, PlaceableTypeId}}
    \cup AttributeOps(p, change)
    \cup UNION {{OpRemoveAttribute(e, c, 0, change), OpRemoveComponent(e, c, change)} :
                    e \in EntityIds(p), c \in 1..LAST_REPLICATED_ID}
    \cup UNION {{OpRemoveEntity(e, change), OpSetTemporary(e, TRUE, change)} : e \in EntityIds(p)}
    \cup {OpSetParent(e, v, change) : e \in EntityIds(p), v \in EntityIds(p)}

EchoOps(p) == SceneOps(p, Replicate)

\* one application change per round trip: the application acts when nothing is in
\* flight or queued, a client's pass runs when the messages before it have been
\* handled, the server's pass whenever its timer fires
EchoLocal ==
    /\ conn["c1"].connected
    /\ \A l \in Links : net[l] = <<>>
    /\ \A p \in Peers : QueuedIds(p) = {}
    /\ \E op \in EchoOps("c1") : Local("c1", op, FALSE)
EchoClientUpdate == (\A l \in Links : net[l] = <<>>) /\ \E c \in Clients : Update(c, FALSE)
EchoToServer == \E c \in Clients : Deliver(c, Server, FALSE)
EchoServerUpdate == Update(Server, FALSE)
EchoToClient == \E c \in Clients : Deliver(Server, c, FALSE)

EchoNext ==
    \/ EchoStart
    \/ EchoLocal
    \/ EchoClientUpdate
    \/ EchoToServer
    \/ EchoServerUpdate
    \/ EchoToClient

SpecEcho == EchoInit /\ [][EchoNext]_vars

ReplyKinds == {"CreateEntityReply", "CreateComponentsReply"}

\* C2 as stated: c1 is the only origin of changes, so any scene message the server sends
\* to c1 describes a change c1 itself sent; the passes for c1 send it nothing but replies
C2_NoEcho ==
    /\ net[<<"c2", Server>>] = <<>>
    /\ \A j \in 1..Len(net[<<Server, "c1">>]) : net[<<Server, "c1">>][j].kind \in ReplyKinds

-----------------------------------------------------------------------------
(* Id reconciliation: client c1 creates entities under unacked ids next to *)
(* the server's entity 1, and never touches its replica of entity 1.       *)

\* entity 1 with component 1 of type 1
IdsScene ==
    Put(EmptyMap, 1, [NewEntity EXCEPT !.comps = Put(EmptyMap, 1, NewComponent(1)), !.genR = 1])

IdsInit == InitAll /\ prioritizer = FALSE

IdsStart == SyncedStart(IdsScene, 1, <<"c1">>)

\* components are added before the first pass sends the new entity, and the entity is
\* removed only after it
IdsOps(p) ==
    {OpCreateEntity(FALSE, Replicate) : x \in {y \in {0} : gen[p].u < MaxEnts - 1}}
    \cup {OpCreateComponent(e, t, FALSE, Replicate) :
            e \in {x \in EntityIds(p) \ {1} : /\ Cardinality(DOMAIN scene[p][x].comps) < MaxComps
                                              /\ scene[p][x].genU < MaxComps
                                              /\ EntState(st[p][Server], x).isNew},
            t \in {1, 3}}
    \cup UNION {UNION {{OpSetAttribute(e, c, 0, v, Replicate) : v \in Values}
                       \cup {OpRemoveComponent(e, c, Replicate)} :
                       c \in DOMAIN scene[p][e].comps} : e \in EntityIds(p) \ {1}}
    \cup {OpSetTemporary(e, TRUE, Replicate) : e \in EntityIds(p) \ {1}}
    \cup {OpRemoveEntity(e, Replicate) :
            e \in {x \in EntityIds(p) \ {1} : ~EntState(st[p][Server], x).isNew}}

IdsLocal == conn["c1"].connected /\ \E op \in IdsOps("c1") : Local("c1", op, FALSE)
IdsClientUpdate == Update("c1", FALSE)
IdsToServer == Deliver("c1", Server, TRUE)
IdsServerUpdate == Update(Server, FALSE)
IdsToClient == Deliver(Server, "c1", TRUE)

IdsNext ==
    \/ IdsStart
    \/ IdsLocal
    \/ IdsClientUpdate
    \/ IdsToServer
    \/ IdsServerUpdate
    \/ IdsToClient

SpecIds == IdsInit /\ [][IdsNext]_vars

IdsLink == <<Server, "c1">>

\* a step in which c1 handles a CreateEntityReply
ReplyHandled ==
    /\ net[IdsLink] # <<>>
    /\ Head(net[IdsLink]).kind = "CreateEntityReply"
    /\ net'[IdsLink] = Tail(net[IdsLink])

\* C4 as stated: when c1 has handled the reply and still has the entity, the entity is
\* under the server's id and no component of the creation keeps an unacked id
C4_NoUnackedIdKept ==
    [][ReplyHandled /\ HasEntity(scene["c1"], OrUnacked(Head(net[IdsLink]).senderEntityId)) =>
          /\ HasEntity(scene'["c1"], Head(net[IdsLink]).entityId)
          /\ \A c \in DOMAIN scene'["c1"][Head(net[IdsLink]).entityId].comps : ~IsUnackedId(c)]_vars

\* C5 as stated: c1's messages about the entities it created are applied to those
\* entities only, so the server's entity 1, which c1 never touches, stays as it was built
C5_OtherEntityUntouched ==
    conn["c1"].connected => HasEntity(scene[Server], 1) /\ scene[Server][1] = IdsScene[1]

-----------------------------------------------------------------------------
(* Authorization: two synchronized clients.  The application's policy for  *)
(* c1 and c1's authenticated property are the application's to change at   *)
(* any time; c1's application makes one change at a time, to a scene that  *)
(* is the server's.                                                        *)

Policies == {0..LAST_REPLICATED_ID, {0}}

ExecTypes == {ExecLocal, ExecServer + ExecPeers}

AuthInit == InitAll /\ prioritizer = FALSE

AuthStart == SyncedStart(BaseScene, 2, ClientSeq)

\* the server's application answers AboutToModifyEntity differently from now on
AuthPolicy ==
    /\ conn["c1"].connected
    /\ \E A \in Policies \ {allow["c1"]} : allow' = [allow EXCEPT !["c1"] = A]
    /\ ev' = [NoEvent EXCEPT !.op = "Policy"]
    /\ UNCHANGED <<scene, st, conn, net, gen, types, clock, prioritizer, mgr>>

\* the server's application sets the connection's authenticated property
AuthRevoke ==
    /\ conn["c1"].connected
    /\ conn' = [conn EXCEPT !["c1"].authenticated = ~@]
    /\ ev' = [NoEvent EXCEPT !.op = "Authenticated"]
    /\ UNCHANGED <<scene, st, net, gen, types, allow, clock, prioritizer, mgr>>

AuthOps(p) == EchoOps(p) \cup {OpExec(e, "Hello", t) : e \in EntityIds(p), t \in ExecTypes}

AuthLocal ==
    /\ conn["c1"].connected
    /\ \A l \in Links : net[l] = <<>>
    /\ \A p \in Peers : QueuedIds(p) = {}
    /\ \A c \in Clients : st[Server][c].queuedActions = <<>>
    /\ scene["c1"] = scene[Server]
    /\ \E op \in AuthOps("c1") : Local("c1", op, FALSE)

AuthClientUpdate == (\A l \in Links : net[l] = <<>>) /\ \E c \in Clients : Update(c, FALSE)
AuthToServer == Deliver("c1", Server, TRUE)
AuthServerUpdate == Update(Server, FALSE)
AuthToClient == \E c \in Clients : Deliver(Server, c, FALSE)

AuthNext ==
    \/ AuthStart
    \/ AuthPolicy
    \/ AuthRevoke
    \/ AuthLocal
    \/ AuthClientUpdate
    \/ AuthToServer
    \/ AuthServerUpdate
    \/ AuthToClient

SpecAuth == AuthInit /\ [][AuthNext]_vars

\* the actions queued for the server's users
QueuedActions(s) == [c \in {x \in DOMAIN s : s[x] # Null} |-> s[c].queuedActions]

\* C6 as stated: a step in which the server handles a message of a connection whose
\* authenticated property is not true changes no entity, executes no entity action,
\* queues no entity action, and leaves the connection connected
C6_UnauthenticatedDropped ==
    [][(ev'.op = "Deliver" /\ ev'.p = Server /\ ~conn[ev'.k].authenticated) =>
            /\ ev'.changed = {}
            /\ \A x \in ev'.sig : x[1] # "ActionExecuted"
            /\ QueuedActions(st'[Server]) = QueuedActions(st[Server])
            /\ conn'[ev'.k].connected]_vars

ModifyKinds ==
    {"CreateComponents", "CreateAttributes", "EditAttributes", "RemoveAttributes",
     "RemoveComponents", "RemoveEntity", "EditEntityProperties", "SetEntityParent"}

\* C7 as stated: when the server has handled a client's message that modifies an existing
\* entity E, E has changed only if the policy allows the client to modify E
C7_ModifyOnlyAllowed ==
    (ev.op = "Deliver" /\ ev.p = Server /\ ev.k \in Clients /\ ev.m.kind \in ModifyKinds
        /\ ev.m.entityId \in ev.changed)
            => ev.m.entityId \in allow[ev.k]

-----------------------------------------------------------------------------
(* Malformed messages: the peer at the other end of c1's connection sends  *)
(* CreateEntity and CreateComponents messages that end early, in the       *)
(* message's header, in a component's header or in a component's data.     *)

CreateKinds == {"CreateEntity", "CreateComponents"}

ThrowPoints == {"no", "header", "data"}

SentComponent(c, t, thr) ==
    [compId |-> c, typeId |-> t, static |-> IF t = 2 THEN <<>> ELSE <<1>>,
     dynamic |-> IF t = 2 THEN <<[index |-> 0, value |-> 1]>> ELSE <<>>, throws |-> thr]

SentComponents ==
    {<<>>}
    \cup {<<SentComponent(1, t, thr)>> : t \in {1, 2}, thr \in ThrowPoints}
    \cup {<<SentComponent(1, 1, "no"), SentComponent(2, t, thr)>> : t \in {1, 2}, thr \in ThrowPoints \ {"no"}}

SentMessages ==
    {[kind |-> "CreateEntity", entityId |-> e, temporary |-> tmp, hasParentField |-> TRUE,
      parentId |-> 0, comps |-> cs, throws |-> FALSE] :
        e \in {1, 2}, tmp \in BOOLEAN, cs \in SentComponents}
    \cup {[kind |-> "CreateEntity", entityId |-> 2, temporary |-> FALSE, hasParentField |-> TRUE,
           parentId |-> 0, comps |-> <<>>, throws |-> TRUE]}
    \cup {[kind |-> "CreateComponents", entityId |-> 1, comps |-> cs, throws |-> FALSE] :
            cs \in SentComponents \ {<<>>}}
    \cup {[kind |-> "CreateComponents", entityId |-> 1, comps |-> <<SentComponent(1, 1, "no")>>,
           throws |-> TRUE]}

ThrowInit == InitAll /\ prioritizer = FALSE

ThrowStart == SyncedStart(IdsScene, 1, <<"c1">>)

\* a message arrives for a peer whose scene is the start scene
ThrowInject ==
    /\ conn["c1"].connected
    /\ \A l \in Links : net[l] = <<>>
    /\ \E l \in {<<"c1", Server>>, <<Server, "c1">>} : \E m \in SentMessages :
          /\ scene[l[2]] = IdsScene
          /\ net' = [net EXCEPT ![l] = <<m>>]
    /\ ev' = [NoEvent EXCEPT !.op = "Inject"]
    /\ UNCHANGED <<scene, st, conn, gen, types, allow, clock, prioritizer, mgr>>

ThrowLocal ==
    /\ conn["c1"].connected
    /\ \A l \in Links : net[l] = <<>>
    /\ \A p \in Peers : QueuedIds(p) = {}
    /\ \E op \in AttributeOps("c1", Replicate) : Local("c1", op, FALSE)

ThrowClientUpdate == Update("c1", FALSE)
ThrowToServer == Deliver("c1", Server, TRUE)
ThrowServerUpdate == Update(Server, FALSE)
ThrowToClient == Deliver(Server, "c1", TRUE)

ThrowNext ==
    \/ ThrowStart
    \/ ThrowInject
    \/ ThrowLocal
    \/ ThrowClientUpdate
    \/ ThrowToServer
    \/ ThrowServerUpdate
    \/ ThrowToClient

SpecThrow == ThrowInit /\ [][ThrowNext]_vars

\* the connection on which the peer at the end of link l receives
SourceOf(l) == IF IsServer(l[2]) THEN l[1] ELSE Server

\* the codec throws while the peer at the end of link l parses the next message
CodecThrows(l) ==
    /\ net[l] # <<>>
    /\ Head(net[l]).kind \in CreateKinds
    /\ Dispatch(World(l[2]), SourceOf(l), Head(net[l])).exc

\* the id under which the receiver of a CreateEntity creates the entity
CreatedId(l) == IF IsServer(l[2]) THEN NextFreeId(World(l[2])) ELSE Head(net[l]).entityId

RolledBack(l) ==
    LET q == l[2]
        m == Head(net[l])
        e == IF m.kind = "CreateEntity" THEN CreatedId(l) ELSE m.entityId
    IN /\ m.kind = "CreateEntity" => ~HasEntity(scene'[q], e)
       /\ m.kind = "CreateComponents" /\ HasEntity(scene[q], e) =>
             /\ HasEntity(scene'[q], e)
             /\ \A c \in DOMAIN scene'[q][e].comps :
                   /\ c \in DOMAIN scene[q][e].comps
                   /\ scene'[q][e].comps[c] = scene[q][e].comps[c]
       /\ \A x \in ev'.sig : x[2] = e => x[1] \notin {"EntityCreated", "AttributeChanged"}
       /\ ~conn'["c1"].connected

\* C8: if the codec throws while a CreateEntity or CreateComponents message is parsed,
\* then after the step that handles the message the entity, respectively every component,
\* the message had created is not in the receiver's scene, no EntityCreated or
\* component-changed signal was emitted for it, and the connection is disconnected
C8_ThrowRollsBack ==
    [][\A l \in Links :
          (CodecThrows(l) /\ ev'.op = "Deliver" /\ ev'.p = l[2] /\ ev'.m = Head(net[l]))
              => RolledBack(l)]_vars

\* the server has handled a message that created a component and then threw
C8_Witness ==
    /\ ev.op = "Deliver" /\ ev.p = Server /\ ev.k = "c1"
    /\ ev.m.kind \in CreateKinds
    /\ \E x \in ev.sig : x[1] = "ComponentAdded"
    /\ \E j \in 1..Len(ev.m.comps) : ev.m.comps[j].throws # "no"
    /\ ~conn["c1"].connected

-----------------------------------------------------------------------------
(* Change kinds: the applications of the server and of c1 change their     *)
(* scenes with every change kind, each call on a scene that is the other   *)
(* peer's.                                                                 *)

KindsInit == InitAll /\ prioritizer = FALSE

KindsStart == SyncedStart(BaseScene, 2, <<"c1">>)

KindsOps(p, change) ==
    SceneOps(p, change)
    \cup {OpCreateEntity(local, change) : local \in BOOLEAN}

KindsReplicate ==
    /\ conn["c1"].connected
    /\ \A l \in Links : net[l] = <<>>
    /\ \A p \in Peers : QueuedIds(p) = {}
    /\ scene[Server] = scene["c1"]
    /\ \E p \in {Server, "c1"} : \E op \in AttributeOps(p, Replicate) \cup {OpRemoveAttribute(1, 1, 0, Replicate), OpSetParent(2, 1, Replicate)} :
          Local(p, op, FALSE)

KindsLocal ==
    /\ conn["c1"].connected
    /\ scene[Server] = scene["c1"]
    /\ \E p \in {Server, "c1"} : \E change \in ChangeKinds \ {Replicate} :
          \E op \in KindsOps(p, change) : Local(p, op, TRUE)

KindsClientUpdate == (\A l \in Links : net[l] = <<>>) /\ Update("c1", FALSE)
KindsToServer == Deliver("c1", Server, FALSE)
KindsServerUpdate == Update(Server, FALSE)
KindsToClient == Deliver(Server, "c1", FALSE)

KindsNext ==
    \/ KindsStart
    \/ KindsReplicate
    \/ KindsLocal
    \/ KindsClientUpdate
    \/ KindsToServer
    \/ KindsServerUpdate
    \/ KindsToClient

SpecKinds == KindsInit /\ [][KindsNext]_vars

\* the application has just made a call with a change kind other than Replicate
UnreplicatedCall == ev.op = "Local" /\ ev.m # Null /\ ev.m.change # Replicate

\* C9, amended: a call with a change kind other than Replicate that sets an attribute's
\* value, adds or removes a component, creates or removes an entity, or changes an
\* entity's properties or parent leaves every connection's sync state unchanged; the
\* creation and the removal of an attribute are recorded whatever the change kind
C9_UnreplicatedLeavesState ==
    (UnreplicatedCall /\ ev.m.kind \notin {"CreateAttribute", "RemoveAttribute"}) => ev.stSame

\* the server's application has set an attribute's value with LocalOnly
C9_Witness ==
    /\ UnreplicatedCall /\ ev.p = Server /\ ev.m.kind = "SetAttribute" /\ ev.changed # {}
    /\ conn["c1"].connected /\ ev.m.e \in DOMAIN st[Server]["c1"].entities
    /\ ev.stSame

\* C9 as stated: every call with a change kind other than Replicate leaves every
\* connection's sync state unchanged, attribute creation and removal included
C9_AnyCallLeavesState == UnreplicatedCall => ev.stSame

-----------------------------------------------------------------------------
(* Dirty bits: entity 1 has a Placeable, entity 2 a component with dynamic *)
(* attributes; the applications of the server and of c1 change attributes, *)
(* with and without interest management.                                   *)

DirtyScene ==
    Put(Put(EmptyMap, 1, [NewEntity EXCEPT !.comps = Put(EmptyMap, 1, NewComponent(PlaceableTypeId)),
                                           !.genR = 1]),
        2, [NewEntity EXCEPT !.comps = Put(EmptyMap, 1, NewComponent(2)), !.genR = 1])

DirtyInit == InitAll /\ prioritizer \in BOOLEAN

DirtyStart == SyncedStart(DirtyScene, 2, <<"c1">>)

\* the server's application changes both entities, the client's the second
DirtyOps(p) ==
    {op \in AttributeOps(p, Replicate)
            \cup {OpRemoveAttribute(e, c, 0, Replicate) : e \in EntityIds(p), c \in 1..LAST_REPLICATED_ID} :
        IsServer(p) \/ op.e = 2}

DirtyLocal ==
    /\ conn["c1"].connected
    /\ \A l \in Links : net[l] = <<>>
    /\ \E p \in {Server, "c1"} : \E op \in DirtyOps(p) : Local(p, op, FALSE)

DirtyClientUpdate == Update("c1", TRUE)
DirtyToServer == Deliver("c1", Server, TRUE)
DirtyServerUpdate == Update(Server, TRUE)
DirtyToClient == Deliver(Server, "c1", TRUE)
DirtyTick == conn["c1"].connected /\ prioritizer /\ Tick

DirtyNext ==
    \/ DirtyStart
    \/ DirtyLocal
    \/ DirtyClientUpdate
    \/ DirtyToServer
    \/ DirtyServerUpdate
    \/ DirtyToClient
    \/ DirtyTick

SpecDirty == DirtyInit /\ [][DirtyNext]_vars

\* C10 as stated: no pass and no handler clears an attribute dirty bit or a new/removed
\* record of a connection's sync state unless the change is in a message sent to that
\* connection in the same step or was just received from it
C10_ClearedOnlySentOrReceived == ev.op \in {"Update", "Deliver"} => ~ev.lost

-----------------------------------------------------------------------------
(* Entity actions: two synchronized clients; the applications of c1 and of *)
(* the server execute actions on entity 1 with every execution type; the   *)
(* server's application may change a connection's authenticated property.  *)

AllExecTypes == 1..(ExecLocal + ExecServer + ExecPeers)

ActInit == InitAll /\ prioritizer = FALSE

ActStart == SyncedStart(BaseScene, 2, ClientSeq)

ActAuthenticate ==
    /\ \E c \in Clients :
          /\ conn[c].connected
          /\ conn' = [conn EXCEPT ![c].authenticated = ~@]
    /\ ev' = [NoEvent EXCEPT !.op = "Authenticated"]
    /\ UNCHANGED <<scene, st, net, gen, types, allow, clock, prioritizer, mgr>>

\* an action is executed when the actions before it have been sent and handled
ActExec ==
    /\ conn["c1"].connected
    /\ \A l \in Links : net[l] = <<>>
    /\ \A c \in Clients : st[Server][c].queuedActions = <<>>
    /\ \E p \in {Server, "c1"} : \E t \in AllExecTypes : Local(p, OpExec(1, "Hello", t), TRUE)

ActClientUpdate == \E c \in Clients : Update(c, FALSE)
ActToServer == Deliver("c1", Server, TRUE)
ActServerUpdate == Update(Server, FALSE)
ActToClient == \E c \in Clients : Deliver(Server, c, FALSE)

ActNext ==
    \/ ActStart
    \/ ActAuthenticate
    \/ ActExec
    \/ ActClientUpdate
    \/ ActToServer
    \/ ActServerUpdate
    \/ ActToClient

SpecAct == ActInit /\ [][ActNext]_vars

\* the action a message carries, as the server queues it for a peer
AsLocal(m) == [m EXCEPT !.executionType = ExecLocal]

\* C14 as stated: when the server handles an EntityAction of connection C for an entity of
\* its scene, it executes the action iff the type has Local or Server, and a copy with
\* type Local is appended to the queuedActions of exactly the other authenticated
\* connections when the type has Peers, and of none otherwise
C14_ActionFanOut ==
    [][(/\ ev'.op = "Deliver" /\ ev'.p = Server /\ ev'.k \in Clients
        /\ ev'.m.kind = "EntityAction" /\ HasEntity(scene[Server], ev'.m.entityId)) =>
            /\ (\E x \in ev'.sig : x[1] = "ActionExecuted")
                  <=> (HasBit(ev'.m.executionType, ExecLocal) \/ HasBit(ev'.m.executionType, ExecServer))
            /\ \A c \in {x \in Clients : st[Server][x] # Null} :
                  st'[Server][c].queuedActions =
                      IF HasBit(ev'.m.executionType, ExecPeers) /\ c # ev'.k /\ conn[c].authenticated
                      THEN Append(st[Server][c].queuedActions, AsLocal(ev'.m))
                      ELSE st[Server][c].queuedActions]_vars

\* C15: when a client's application triggers an action, the client sends it to the server
\* iff the type has Server or Peers and the connection exists, with the requested type
\* less the Local bit; an action that is only Local is not sent
C15_ClientSendsAction ==
    (ev.op = "Local" /\ ev.p \in Clients /\ ev.m # Null /\ ev.m.kind = "Exec") =>
        ev.out = IF (HasBit(ev.m.type, ExecServer) \/ HasBit(ev.m.type, ExecPeers))
                    /\ st[ev.p][Server] # Null
                 THEN <<<<Server, [kind |-> "EntityAction", entityId |-> ev.m.e, name |-> ev.m.name,
                                   executionType |-> ev.m.type - (ev.m.type % 2)]>>>>
                 ELSE <<>>

\* c1's application has triggered an action with Local, Server and Peers and sent it
C15_Witness ==
    /\ ev.op = "Local" /\ ev.p = "c1" /\ ev.m # Null /\ ev.m.kind = "Exec"
    /\ ev.m.type = ExecLocal + ExecServer + ExecPeers
    /\ Len(net[<<"c1", Server>>]) = 1
    /\ net[<<"c1", Server>>][1].executionType = ExecServer + ExecPeers

-----------------------------------------------------------------------------
(* Messages the switch has no case for: a peer receives a message whose id *)
(* belongs to another module (login, assets) while scene changes replicate. *)

\* the message ids of TundraMessages.h that HandleNetworkMessage has no case for
UnhandledKinds ==
    {"Login", "LoginReply", "ClientJoined", "ClientLeft", "AssetDiscovery", "AssetDeleted"}

UnhandledInit == InitAll /\ prioritizer = FALSE

UnhandledStart == SyncedStart(BaseScene, 2, <<"c1">>)

UnhandledInject ==
    /\ conn["c1"].connected
    /\ \E l \in {<<"c1", Server>>, <<Server, "c1">>} : \E kind \in UnhandledKinds :
          /\ Len(net[l]) < MaxNet - 1
          /\ \A i \in 1..Len(net[l]) : net[l][i].kind \notin UnhandledKinds
          /\ net' = [net EXCEPT ![l] = Append(@, [kind |-> kind])]
    /\ ev' = [NoEvent EXCEPT !.op = "Inject"]
    /\ UNCHANGED <<scene, st, conn, gen, types, allow, clock, prioritizer, mgr>>

UnhandledLocal ==
    /\ conn["c1"].connected
    /\ \A l \in Links : net[l] = <<>>
    /\ \A p \in Peers : QueuedIds(p) = {}
    /\ scene["c1"] = scene[Server]
    /\ \E op \in AttributeOps("c1", Replicate) : Local("c1", op, FALSE)

UnhandledClientUpdate == Update("c1", FALSE)
UnhandledToServer == Deliver("c1", Server, TRUE)
UnhandledServerUpdate == Update(Server, FALSE)
UnhandledToClient == Deliver(Server, "c1", TRUE)

UnhandledNext ==
    \/ UnhandledStart
    \/ UnhandledInject
    \/ UnhandledLocal
    \/ UnhandledClientUpdate
    \/ UnhandledToServer
    \/ UnhandledServerUpdate
    \/ UnhandledToClient

SpecUnhandled == UnhandledInit /\ [][UnhandledNext]_vars

\* C19: handling a message whose id has no case changes neither a scene nor a sync
\* state, and leaves the sender connected
C19_UnhandledIgnored ==
    [][(ev'.op = "Deliver" /\ ev'.m # Null /\ ev'.m.kind \in UnhandledKinds) =>
            /\ scene' = scene
            /\ st' = st
            /\ conn' = conn
            /\ ev'.sig = {} /\ ev'.out = <<>>]_vars

\* the server has handled a login-reply message of c1 while a change of c1 is in flight
C19_Witness ==
    /\ ev.op = "Deliver" /\ ev.p = Server /\ ev.k = "c1"
    /\ ev.m # Null /\ ev.m.kind = "LoginReply"
    /\ conn["c1"].connected
    /\ scene["c1"] # scene[Server]

-----------------------------------------------------------------------------
(* The layout of EditAttributes: the server's application changes the      *)
(* attributes of a component of 17 attribute slots and of one of 2 slots.  *)

WideIndex == 16

EncodeScene ==
    LET wide == [typeId |-> 2, attrs |-> Put(Put(EmptyMap, 0, 0), WideIndex, 0)]
        narrow == [typeId |-> 2, attrs |-> Put(Put(EmptyMap, 0, 0), 1, 0)]
    IN Put(Put(EmptyMap, 1, [NewEntity EXCEPT !.comps = Put(EmptyMap, 1, wide), !.genR = 1]),
           2, [NewEntity EXCEPT !.comps = Put(EmptyMap, 1, narrow), !.genR = 1])

EncodeInit == InitAll /\ prioritizer = FALSE

EncodeStart == SyncedStart(EncodeScene, 2, <<"c1">>)

EncodeOps(p) ==
    UNION {{OpSetAttribute(e, 1, i, v, Replicate) : i \in DOMAIN scene[p][e].comps[1].attrs, v \in Values} :
              e \in EntityIds(p)}

EncodeLocal ==
    /\ conn["c1"].connected
    /\ \A l \in Links : net[l] = <<>>
    /\ \E op \in EncodeOps(Server) : Local(Server, op, FALSE)

EncodeServerUpdate == Update(Server, TRUE)
EncodeToClient == Deliver(Server, "c1", FALSE)
EncodeClientUpdate == Update("c1", FALSE)

EncodeNext ==
    \/ EncodeStart
    \/ EncodeLocal
    \/ EncodeServerUpdate
    \/ EncodeToClient
    \/ EncodeClientUpdate

SpecEncode == EncodeInit /\ [][EncodeNext]_vars

\* the EditAttributes blocks a pass has sent, each with the component it describes
SentEditBlocks ==
    UNION {{[block |-> ev.out[j][2].comps[i],
             comp |-> scene[ev.p][ev.out[j][2].entityId].comps[ev.out[j][2].comps[i].compId]] :
                i \in 1..Len(ev.out[j][2].comps)} :
           j \in {x \in 1..Len(ev.out) : ev.out[x][2].kind = "EditAttributes"}}

\* the number of attribute values a block carries
NumChanged(b) ==
    IF b.method = 0 THEN Len(b.list) ELSE Cardinality({j \in 1..Len(b.list) : b.list[j].changed})

\* C20 as stated: a block that carries at most one changed attribute has the index-list
\* layout, whatever the number of attributes of its component
C20_SingleUsesIndexList ==
    ev.op = "Update" => \A x \in SentEditBlocks : NumChanged(x.block) <= 1 => x.block.method = 0

\* C20 amended: a block has the index-list layout exactly when eight bits per changed
\* attribute plus eight are no more than the number of attributes of its component
C20_ShorterLayoutChosen ==
    ev.op = "Update" =>
        \A x \in SentEditBlocks :
            x.block.method = 0 <=> 8 * NumChanged(x.block) + 8 <= AttrsSize(x.comp)

\* one pass has sent one changed attribute of the wide component as an index list and
\* one changed attribute of the narrow component as a bitmask
C20_Witness ==
    /\ ev.op = "Update" /\ ev.p = Server
    /\ \E x \in SentEditBlocks :
          AttrsSize(x.comp) = WideIndex + 1 /\ NumChanged(x.block) = 1 /\ x.block.method = 0
    /\ \E x \in SentEditBlocks :
          AttrsSize(x.comp) = 2 /\ NumChanged(x.block) = 1 /\ x.block.method = 1

-----------------------------------------------------------------------------
(* Placeholder component types: the applications of c1 and of the server   *)
(* describe component types, clients log in, and components of the         *)
(* described types are created.                                            *)

\* the descriptions an application registers, each with its change kind
AppTypes(p) ==
    IF IsServer(p) THEN {<<6, Replicate>>, <<7, LocalOnly>>}
    ELSE IF p = "c1" THEN {<<5, Replicate>>}
    ELSE {}

AppTypeIds(p) == {x[1] : x \in AppTypes(p)}

TypesInit == InitAll /\ prioritizer = FALSE

TypesStart == scene[Server] = EmptyMap /\ SyncedStart(IdsScene, 1, <<>>)

\* an application describes a type when nothing is in flight
TypesRegister ==
    /\ scene[Server] # EmptyMap
    /\ \A l \in Links : net[l] = <<>>
    /\ \E p \in Peers : \E x \in AppTypes(p) :
          /\ x[1] \notin types[p].placeholders
          /\ Local(p, OpRegisterType(x[1], x[2]), TRUE)

\* c1 speaks the newest protocol, c2 that or one without custom components
TypesConnect ==
    /\ scene[Server] # EmptyMap
    /\ \A l \in Links : net[l] = <<>>
    /\ \/ Connect("c1", ProtocolWebClientRigidBodyMessage, TRUE)
       \/ \E proto \in {ProtocolHierarchicScene, ProtocolWebClientRigidBodyMessage} :
             Connect("c2", proto, TRUE)

\* a component of a described type is created on entity 1 when nothing is in flight
TypesCreate ==
    /\ \A l \in Links : net[l] = <<>>
    /\ \A p \in Peers : QueuedIds(p) = {}
    /\ \E p \in Peers :
          /\ p \in Clients => conn[p].connected
          /\ HasEntity(scene[p], 1) /\ Cardinality(DOMAIN scene[p][1].comps) = 1
          /\ \A q \in Peers : HasEntity(scene[q], 1) => Cardinality(DOMAIN scene[q][1].comps) = 1
          /\ \E t \in types[p].placeholders : Local(p, OpCreateComponent(1, t, FALSE, Replicate), TRUE)

TypesClientUpdate == \E c \in Clients : Update(c, TRUE)
TypesToServer == \E c \in Clients : Deliver(c, Server, TRUE)
TypesServerUpdate == Update(Server, TRUE)
TypesToClient == \E c \in Clients : Deliver(Server, c, TRUE)

TypesNext ==
    \/ TypesStart
    \/ TypesRegister
    \/ TypesConnect
    \/ TypesCreate
    \/ TypesClientUpdate
    \/ TypesToServer
    \/ TypesServerUpdate
    \/ TypesToClient

SpecTypes == TypesInit /\ [][TypesNext]_vars

\* the types whose descriptions a list of sent messages carries to connection k
TypesSentTo(out, k) ==
    {out[j][2].typeId : j \in {x \in 1..Len(out) : out[x][1] = k /\ out[x][2].kind = "RegisterComponentType"}}

TypesInFlight(l) == {net[l][j].typeId : j \in {x \in 1..Len(net[l]) : net[l][x].kind = "RegisterComponentType"}}

\* C17 as stated: no description is in flight to the peer it came from: none from the
\* server to the client whose application registered the type, and none from a client to
\* the server of a type the server told that client
C17_NoEchoOfType ==
    \A c \in Clients :
        /\ TypesInFlight(<<Server, c>>) \cap AppTypeIds(c) = {}
        /\ TypesInFlight(<<c, Server>>) \cap types[c].fromServer = {}

\* the components a CreateEntity or CreateComponents message carries
CarriedTypes(m) ==
    IF m # Null /\ m.kind \in {"CreateEntity", "CreateComponents"}
    THEN {m.comps[j].typeId : j \in 1..Len(m.comps)} \cap PlaceholderTypes
    ELSE {}

\* C18 as stated: when a client whose protocol has custom components receives a message
\* that creates a component of a placeholder type, the server has sent it the type's
\* description before
C18_DescriptionFirst ==
    [][(ev'.op = "Deliver" /\ ev'.p \in Clients /\ conn[ev'.p].protocolVersion >= ProtocolCustomComponents) =>
            CarriedTypes(ev'.m) \subseteq types[ev'.p].fromServer]_vars

\* C18 amended: the same for a type the server registered with change kind Replicate, on
\* every connection but the one the description came from
C18_ReplicatedDescriptionFirst ==
    [][(ev'.op = "Deliver" /\ ev'.p \in Clients /\ conn[ev'.p].protocolVersion >= ProtocolCustomComponents) =>
            \A t \in CarriedTypes(ev'.m) :
                \/ t \in types[ev'.p].fromServer
                \/ t \in AppTypeIds(ev'.p)
                \/ <<t, LocalOnly>> \in AppTypes(Server)]_vars

\* c2 has been told c1's type by the server and now receives a component of it
C18_Witness ==
    /\ ev.op = "Deliver" /\ ev.p = "c2"
    /\ 5 \in CarriedTypes(ev.m)
    /\ 5 \in types["c2"].fromServer
    /\ HasEntity(scene["c2"], 1) /\ \E c \in DOMAIN scene["c2"][1].comps : scene["c2"][1].comps[c].typeId = 5

-----------------------------------------------------------------------------
(* The order of the messages of one server tick: the server's application  *)
(* describes a type and changes its scene in every way, client c1 logs in  *)
(* and creates an entity with a Placeable of its own.                      *)

OrderInit == InitAll /\ prioritizer = FALSE

\* entity 1 has a Placeable; entity 2 a component of one static attribute and one of one
\* dynamic attribute
OrderScene ==
    Put(Put(EmptyMap, 1, [NewEntity EXCEPT !.comps = Put(EmptyMap, 1, NewComponent(PlaceableTypeId)),
                                           !.genR = 1]),
        2, [NewEntity EXCEPT !.comps = Put(Put(EmptyMap, 1, NewComponent(1)),
                                           2, [typeId |-> 2, attrs |-> Put(EmptyMap, 0, 0)]),
                             !.genR = 2])

OrderStart == scene[Server] = EmptyMap /\ SyncedStart(OrderScene, 2, <<>>)

OrderRegister ==
    /\ scene[Server] # EmptyMap
    /\ ~conn["c1"].connected
    /\ types[Server].placeholders = {}
    /\ Local(Server, OpRegisterType(6, Replicate), FALSE)

OrderConnect == scene[Server] # EmptyMap /\ Connect("c1", ProtocolWebClientRigidBodyMessage, TRUE)

\* c1's application creates an entity and its Placeable before c1's first pass
OrderClientCreate ==
    /\ conn["c1"].connected
    /\ st["c1"][Server].needSendPlaceholderComponents
    /\ \E op \in {OpCreateEntity(FALSE, Replicate)} \cup
                 {OpCreateComponent(e, PlaceableTypeId, FALSE, Replicate) :
                      e \in {x \in EntityIds("c1") : scene["c1"][x].comps = EmptyMap}} :
          /\ op.kind = "CreateEntity" => gen["c1"].u = 0
          /\ Local("c1", op, FALSE)

\* a position far enough from 0 for a Transform change to be sent
FarPos == 2

\* before its first pass for c1 the server's application moves the entity c1 created and
\* executes an action; after it, it changes entities 1 and 2 while c1 has them as they
\* were
OrderOps ==
    IF st[Server]["c1"].needSendPlaceholderComponents
    THEN UNION {{OpSetAttribute(e, c, 0, FarPos, Replicate) : c \in DOMAIN scene[Server][e].comps} :
                   e \in EntityIds(Server) \ {1, 2}}
         \cup {OpExec(1, "Hello", ExecPeers)}
    ELSE IF \A e \in {1, 2} : HasEntity(scene["c1"], e) /\ scene["c1"][e] = OrderScene[e]
    THEN {OpSetAttribute(1, 1, 0, FarPos, Replicate), OpSetAttribute(2, 1, 0, 1, Replicate),
          OpCreateAttribute(2, 2, 1, Replicate), OpRemoveAttribute(2, 2, 0, Replicate),
          OpSetTemporary(2, TRUE, Replicate), OpSetParent(2, 1, Replicate),
          OpCreateComponent(2, 1, FALSE, Replicate), OpRemoveComponent(2, 2, Replicate),
          OpExec(1, "Hello", ExecPeers)}
    ELSE {}

OrderLocal ==
    /\ conn["c1"].connected
    /\ \A l \in Links : net[l] = <<>>
    /\ QueuedIds("c1") = {}
    /\ \E op \in OrderOps :
          /\ op.kind = "Exec" => st[Server]["c1"].queuedActions = <<>>
          /\ op.kind = "CreateComponent" => scene[Server][2].genR < 3
          /\ Local(Server, op, FALSE)

OrderServerUpdate == Update(Server, TRUE)
OrderToClient == Deliver(Server, "c1", FALSE)
OrderClientUpdate == Update("c1", FALSE)
OrderToServer == Deliver("c1", Server, FALSE)

OrderNext ==
    \/ OrderStart
    \/ OrderRegister
    \/ OrderConnect
    \/ OrderClientCreate
    \/ OrderLocal
    \/ OrderServerUpdate
    \/ OrderToClient
    \/ OrderClientUpdate
    \/ OrderToServer

SpecOrder == OrderInit /\ [][OrderNext]_vars

\* the messages a pass has sent to connection k, in order
SentTo(k) == MessagesTo(ev.out, k)

EntityKinds ==
    {"CreateEntity", "RemoveEntity", "RemoveComponents", "RemoveAttributes", "CreateComponents",
     "CreateAttributes", "EditAttributes", "EditEntityProperties", "SetEntityParent"}

\* the place of a message kind among the messages of one entity
KindOrder(kind) ==
    CASE kind = "RemoveComponents" -> 1
      [] kind = "RemoveAttributes" -> 2
      [] kind = "CreateComponents" -> 3
      [] kind = "CreateAttributes" -> 4
      [] kind = "EditAttributes" -> 5
      [] kind \in {"EditEntityProperties", "SetEntityParent"} -> 6
      [] OTHER -> 0

\* the messages of each entity are together and in the order of their kinds
EntityOrder(seq) ==
    \A i, j \in 1..Len(seq) :
        (i < j /\ seq[i].kind \in EntityKinds /\ seq[j].kind \in EntityKinds
               /\ MaskId(seq[i].entityId) = MaskId(seq[j].entityId)) =>
            /\ KindOrder(seq[i].kind) <= KindOrder(seq[j].kind)
            /\ \A l \in i..j : seq[l].kind \in EntityKinds
                                  /\ MaskId(seq[l].entityId) = MaskId(seq[i].entityId)

\* the phases of a tick follow the order of the list phases
PhaseOrder(seq, phases) ==
    \A i, j \in 1..Len(seq) : i < j =>
        \A a, b \in 1..Len(phases) : (seq[i].kind \in phases[a] /\ seq[j].kind \in phases[b]) => a <= b

\* C11 as stated: in a server tick the messages to a connection are the descriptions,
\* then the RigidBodyUpdate messages, then the messages of each entity in the order of
\* their kinds, then the queued entity actions
C11_DescriptionsFirst ==
    (ev.op = "Update" /\ ev.p = Server) =>
        \A c \in Clients :
            /\ PhaseOrder(SentTo(c), <<{"RegisterComponentType"}, {"RigidBodyUpdate"}, EntityKinds,
                                       {"EntityAction"}>>)
            /\ EntityOrder(SentTo(c))

\* C11 amended: in a server tick the messages to a connection are the RigidBodyUpdate
\* messages, then the descriptions, then the messages of each entity in the order of
\* their kinds, then the queued entity actions
C11_RigidBodiesFirst ==
    (ev.op = "Update" /\ ev.p = Server) =>
        \A c \in Clients :
            /\ PhaseOrder(SentTo(c), <<{"RigidBodyUpdate"}, {"RegisterComponentType"}, EntityKinds,
                                       {"EntityAction"}>>)
            /\ EntityOrder(SentTo(c))

\* the first tick for c1 has sent it a RigidBodyUpdate, the description, the entities of
\* the scene and an entity action
C11_Witness ==
    /\ ev.op = "Update" /\ ev.p = Server
    /\ {"RigidBodyUpdate", "RegisterComponentType", "CreateEntity", "EntityAction"}
           \subseteq {SentTo("c1")[j].kind : j \in 1..Len(SentTo("c1"))}

\* a later tick has sent c1 messages of four kinds for entity 2
ManyKindsSent ==
    /\ ev.op = "Update" /\ ev.p = Server
    /\ Cardinality({SentTo("c1")[j].kind : j \in {x \in 1..Len(SentTo("c1")) :
                        /\ SentTo("c1")[x].kind \in EntityKinds
                        /\ SentTo("c1")[x].entityId = 2}}) >= 4

-----------------------------------------------------------------------------
(* The latest-data guarantee: client c1 receives RigidBodyUpdate packets   *)
(* with any packet counters, over UDP or over TCP.                         *)

PacketInit ==
    /\ \E u \in BOOLEAN : InitOver([c \in Clients |-> [NewConn EXCEPT !.udp = u]])
    /\ prioritizer = FALSE

\* entities 1 and 2 have a Placeable each
PacketScene ==
    LET ent == [NewEntity EXCEPT !.comps = Put(EmptyMap, 1, NewComponent(PlaceableTypeId)), !.genR = 1]
    IN Put(Put(EmptyMap, 1, ent), 2, ent)

PacketStart == SyncedStart(PacketScene, 2, <<"c1">>)

\* the packets: one entry or two, for an entity of the scene or for none (entity 3)
PacketEntries ==
    LET entry(e, v) == RigidBodyEntryOf(e, 1, v, 0, 0, 0, 0)
    IN {<<entry(1, v)>> : v \in 0..MaxVal}
           \cup {<<entry(e, MaxVal)>> : e \in 2..3}
           \cup {<<entry(1, MaxVal), entry(2, MaxVal)>>}

\* the transport hands c1 a RigidBodyUpdate packet
PacketReceive ==
    /\ conn["c1"].connected
    /\ \E id \in PacketIds, entries \in PacketEntries :
          LET m == [kind |-> "RigidBodyUpdate", packetId |-> id, entries |-> entries]
          IN Bind(HandleNetworkMessage(World("c1"), Server, m), LAMBDA w :
                 Commit(w, "Deliver", Server, m, MsgBits(w.sc, m), NoLink, TRUE))

\* c1's application moves a Placeable of its scene without replicating the change
PacketLocal ==
    /\ conn["c1"].connected
    /\ \E v \in 0..MaxVal : Local("c1", OpSetAttribute(1, 1, 0, v, LocalOnly), FALSE)

PacketNext ==
    \/ PacketStart
    \/ PacketReceive
    \/ PacketLocal

SpecPacket == PacketInit /\ [][PacketNext]_vars

\* the interpolation states of c1's connection to the server
Interpolations(s) == IF s["c1"][Server] = Null THEN EmptyMap ELSE s["c1"][Server].entityInterpolations

\* the step is c1 receiving a RigidBodyUpdate packet with a packet counter
PacketReceived == ev'.op = "Deliver" /\ ev'.m.kind = "RigidBodyUpdate" /\ HasPacketId(ev'.m)

\* the packet leaves alone the entities whose counter is newer than its own, and no
\* counter moves to an older one
LatestData ==
    \A e \in DOMAIN Interpolations(st) :
        /\ PacketIDIsNewerThan(Interpolations(st)[e].lastReceivedPacketCounter, ev'.m.packetId) =>
               Interpolations(st')[e] = Interpolations(st)[e]
        /\ ~PacketIDIsNewerThan(Interpolations(st)[e].lastReceivedPacketCounter,
                                Interpolations(st')[e].lastReceivedPacketCounter)

\* C13 as stated: a received RigidBodyUpdate packet whose counter is older than an
\* entity's lastReceivedPacketCounter leaves the entity's interpolation state unchanged,
\* and lastReceivedPacketCounter never moves to an older counter
C13_LatestData == [][PacketReceived => LatestData]_vars

\* C13 amended: the same on a connection whose transport is UDP
C13_LatestDataOverUDP == [][(PacketReceived /\ conn["c1"].udp) => LatestData]_vars

\* over UDP c1 has received a packet for an entity whose counter is newer, with another
\* position than the entity's interpolation state has
C13_Witness ==
    /\ ev.op = "Deliver" /\ ev.m.kind = "RigidBodyUpdate" /\ HasPacketId(ev.m)
    /\ conn["c1"].udp
    /\ \E j \in 1..Len(ev.m.entries) :
          LET r == ev.m.entries[j]
          IN /\ r.entityId \in DOMAIN Interpolations(st)
             /\ PacketIDIsNewerThan(Interpolations(st)[r.entityId].lastReceivedPacketCounter, ev.m.packetId)
             /\ Interpolations(st)[r.entityId].end # r.pos

-----------------------------------------------------------------------------
(* Coming to rest: the server's application has created a rigid body,      *)
(* moving or at rest, and sets its velocities; client c1 is synchronized.  *)

RestInit == InitAll /\ prioritizer = FALSE

\* entity 1 has a Placeable (component 1) and a rigid body of mass 1 (component 2) with
\* linear and angular velocity v
RestScene(v) ==
    Put(EmptyMap, 1,
        [NewEntity EXCEPT !.comps = Put(Put(EmptyMap, 1, NewComponent(PlaceableTypeId)),
                                        2, [NewComponent(RigidBodyTypeId) EXCEPT
                                               !.attrs[MassIndex] = 1,
                                               !.attrs[LinearVelocityIndex] = v,
                                               !.attrs[AngularVelocityIndex] = v]),
                          !.genR = 2])

RestStart == \E v \in 0..MaxVal : SyncedStart(RestScene(v), 1, <<"c1">>)

RestOps ==
    {OpSetAttribute(1, 2, i, v, Replicate) : i \in {LinearVelocityIndex, AngularVelocityIndex}, v \in 0..MaxVal}

RestLocal ==
    /\ conn["c1"].connected
    /\ \A l \in Links : net[l] = <<>>
    /\ \E op \in RestOps : Local(Server, op, FALSE)

RestServerUpdate == Update(Server, TRUE)
RestToClient == Deliver(Server, "c1", FALSE)

RestNext ==
    \/ RestStart
    \/ RestLocal
    \/ RestServerUpdate
    \/ RestToClient

SpecRest == RestInit /\ [][RestNext]_vars

\* ENABLED <<RestServerUpdate>>_vars: a pass of the server would send or change a sync
\* state
PassPending ==
    \E ord \in IF prioritizer THEN Perms(QueuedIds(Server)) ELSE {<<>>} :
        LET w == UpdateWorld(World(Server), ord) IN w.out # <<>> \/ w.st # st[Server]

\* the frame loop runs the server's pass again and again (the weak fairness of
\* RestServerUpdate, its enabling condition written out), and the transport delivers
SpecRestFair ==
    /\ SpecRest
    /\ ([]<>~PassPending \/ []<><<RestServerUpdate>>_vars)
    /\ WF_vars(RestToClient)

\* the value of velocity i that c1 was last sent: with nothing in flight, the end point
\* f of its interpolation state, or its copy of the attribute when it has none
LastSent(i, f) ==
    IF 1 \in DOMAIN Interpolations(st) THEN Interpolations(st)[1][f]
    ELSE scene["c1"][1].comps[2].attrs[i]

\* the body's velocity i is zero and the value last sent to c1 is not
AtRest(i, f) ==
    /\ conn["c1"].connected
    /\ net[<<Server, "c1">>] = <<>>
    /\ scene[Server][1].comps[2].attrs[i] = 0
    /\ LastSent(i, f) # 0

LinearAtRest == AtRest(LinearVelocityIndex, "endVel")
AngularAtRest == AtRest(AngularVelocityIndex, "endAngVel")

\* the RigidBodyUpdate messages a step has sent to c1
RigidBodyUpdatesOf(e) ==
    IF e.op # "Update" THEN {}
    ELSE {e.out[j][2] : j \in {x \in 1..Len(e.out) : e.out[x][1] = "c1" /\ e.out[x][2].kind = "RigidBodyUpdate"}}

\* the last pass has sent c1 a reliable message with the zero linear velocity
ZeroLinearSent ==
    \E m \in RigidBodyUpdatesOf(ev) : m.reliable /\ \E j \in 1..Len(m.entries) :
        m.entries[j].velSendType # 0 /\ m.entries[j].vel = 0

\* the last pass has sent c1 a reliable message with the zero angular velocity
ZeroAngularSent ==
    \E m \in RigidBodyUpdatesOf(ev) : m.reliable /\ \E j \in 1..Len(m.entries) :
        m.entries[j].angVelSendType # 0 /\ m.entries[j].angVel = 0

\* C12: whenever a rigid body's linear (or angular) velocity is zero while the value
\* last sent to a connection is not, the sender eventually sends that connection a
\* reliable RigidBodyUpdate with the zero velocity, unless the body moves again first
C12_ComeToRest ==
    /\ LinearAtRest ~> (ZeroLinearSent \/ ~LinearAtRest)
    /\ AngularAtRest ~> (ZeroAngularSent \/ ~AngularAtRest)

-----------------------------------------------------------------------------
(* The bit layout of a RigidBodyUpdate entry.  A bit stream is the         *)
(* sequence of the fields written, each with its width in bits; a read of  *)
(* n bits at a bit position yields the field written there when it is n    *)
(* bits wide and Garbage when it is not.  A rotation or angular velocity   *)
(* is its quantized angle, 0 being the zero-angle sentinel.                *)

Garbage == 0 - 1

Field(w, v) == [w |-> w, v |-> v]

RECURSIVE BitsFilled(_)
BitsFilled(s) == IF s = <<>> THEN 0 ELSE Head(s).w + BitsFilled(Tail(s))

\* the bits left to read at position p, the stream being sent as whole bytes
BitsLeft(s, p) == 8 * ((BitsFilled(s) + 7) \div 8) - p

\* the fields of s that start at bit position p
FieldsAt(s, p) == {i \in 1..Len(s) : BitsFilled(SubSeq(s, 1, i - 1)) = p}

ReadBits(s, p, n) ==
    IF \E i \in FieldsAt(s, p) : s[i].w = n
    THEN s[CHOOSE i \in FieldsAt(s, p) : s[i].w = n].v
    ELSE Garbage

\* kNet::VLE8_16_32: one, two or four bytes
VLESize(v) == IF v < 128 THEN 8 ELSE IF v < 16384 THEN 16 ELSE 32

AddVLE(v) == <<Field(VLESize(v), v)>>

\* the value read and the bits consumed, the size being told by the first bits read
ReadVLE(s, p) ==
    IF \E i \in FieldsAt(s, p) : s[i].w \in {8, 16, 32}
    THEN LET i == CHOOSE j \in FieldsAt(s, p) : s[j].w \in {8, 16, 32}
         IN [v |-> s[i].v, n |-> s[i].w]
    ELSE [v |-> Garbage, n |-> 8]

\* five values of the alphabets (3, 4, 3, 3, 2) in one byte
AddArithmeticEncoded(posSendType, rotSendType, scaleSendType, velSendType, angVelSendType) ==
    <<Field(8, (((posSendType * 4 + rotSendType) * 3 + scaleSendType) * 3 + velSendType) * 2 + angVelSendType)>>

ReadArithmeticEncoded(s, p) ==
    LET b == ReadBits(s, p, 8)
        v == IF b = Garbage THEN 0 ELSE b
    IN [posSendType |-> v \div 72, rotSendType |-> (v \div 18) % 4, scaleSendType |-> (v \div 6) % 3,
        velSendType |-> (v \div 2) % 3, angVelSendType |-> v % 2]

\* a quaternion as axis and angle: the quantized angle in 10 bits, then the axis in
\* 11 + 10 bits unless the quantized angle is zero
AddAxisAngle(q) == <<Field(10, q)>> \o (IF q # 0 THEN <<Field(21, q)>> ELSE <<>>)

WriteOptimizedPosAndRot(posSendType, pos, rotSendType, rot) ==
    (IF posSendType = 1 THEN <<Field(19, pos), Field(19, pos), Field(19, pos)>>
     ELSE IF posSendType = 2 THEN <<Field(32, pos), Field(32, pos), Field(32, pos)>>
     ELSE <<>>)
    \o (IF rotSendType = 1 THEN <<Field(8, rot)>>
        ELSE IF rotSendType = 2 THEN <<Field(17, rot)>>
        ELSE IF rotSendType = 3 THEN AddAxisAngle(rot)
        ELSE <<>>)

\* a rotation read at p with every axis read, whatever the quantized angle
ReadAxisAngle_AlwaysAxis(s, p) ==
    LET q == ReadBits(s, p, 10)
    IN [v |-> ReadBits(s, p + 10, 21), to |-> p + 31]

\* a rotation read at p: the quantized angle, and the axis unless the angle is zero
ReadAxisAngle(s, p) ==
    LET q == ReadBits(s, p, 10)
    IN IF q # 0 THEN [v |-> ReadBits(s, p + 10, 21), to |-> p + 31]
       ELSE [v |-> 0, to |-> p + 10]

\* three values of n bits read at p, the result being the last
ReadThree(s, p, n) ==
    IF ReadBits(s, p, n) = Garbage \/ ReadBits(s, p + n, n) = Garbage THEN Garbage
    ELSE ReadBits(s, p + 2 * n, n)

\* pos and rot are the values kept when the message omits them
ReadOptimizedPosAndRot(s, p, posSendType, pos, rotSendType, rot) ==
    Bind(IF posSendType = 1 THEN [v |-> ReadThree(s, p, 19), to |-> p + 57]
         ELSE IF posSendType = 2 THEN [v |-> ReadThree(s, p, 32), to |-> p + 96]
         ELSE [v |-> pos, to |-> p],
         LAMBDA a :
    Bind(IF rotSendType = 1 THEN [v |-> ReadBits(s, a.to, 8), to |-> a.to + 8]
         ELSE IF rotSendType = 2 THEN [v |-> ReadBits(s, a.to, 17), to |-> a.to + 17]
         ELSE IF rotSendType = 3 THEN ReadAxisAngle(s, a.to)
         ELSE [v |-> rot, to |-> a.to],
         LAMBDA b : [pos |-> a.v, rot |-> b.v, to |-> b.to]))

\* an entry as the sender describes it
WireEntry(e, posSendType, pos, rotSendType, rot, scaleSendType, scale, velSendType, vel, angVelSendType, angVel) ==
    [entityId |-> e, posSendType |-> posSendType, pos |-> pos, rotSendType |-> rotSendType, rot |-> rot,
     scaleSendType |-> scaleSendType, scale |-> scale, velSendType |-> velSendType, vel |-> vel,
     angVelSendType |-> angVelSendType, angVel |-> angVel]

\* the fields ReplicateRigidBodyChanges writes for the entry r
WriteRigidBodyEntry(r) ==
    AddVLE(r.entityId)
    \o AddArithmeticEncoded(r.posSendType, r.rotSendType, r.scaleSendType, r.velSendType, r.angVelSendType)
    \o WriteOptimizedPosAndRot(r.posSendType, r.pos, r.rotSendType, r.rot)
    \o (IF r.scaleSendType = 1 THEN <<Field(32, r.scale)>>
        ELSE IF r.scaleSendType = 2 THEN <<Field(32, r.scale), Field(32, r.scale), Field(32, r.scale)>>
        ELSE <<>>)
    \o (IF r.velSendType = 1 THEN <<Field(32, r.vel)>>
        ELSE IF r.velSendType = 2 THEN <<Field(39, r.vel)>>
        ELSE <<>>)
    \o (IF r.angVelSendType = 1 THEN AddAxisAngle(r.angVel) ELSE <<>>)

\* the written entries, each with the bit positions of its first bit and of the bit
\* after its last, and the stream
RECURSIVE WriteRigidBodyEntries(_, _)
WriteRigidBodyEntries(entries, acc) ==
    IF entries = <<>> THEN acc
    ELSE Bind(WriteRigidBodyEntry(Head(entries)), LAMBDA f :
         Bind(BitsFilled(acc.stream), LAMBDA p :
              WriteRigidBodyEntries(Tail(entries),
                  [stream |-> acc.stream \o f,
                   entries |-> Append(acc.entries,
                                      [entry |-> Head(entries), from |-> p, to |-> p + BitsFilled(f)])])))

\* the entry HandleRigidBodyChanges reads at p, the receiver keeping 0 for what is omitted
ReadRigidBodyEntry(s, p) ==
    Bind(ReadVLE(s, p), LAMBDA id :
    Bind(ReadArithmeticEncoded(s, p + id.n), LAMBDA h :
    Bind(ReadOptimizedPosAndRot(s, p + id.n + 8, h.posSendType, 0, h.rotSendType, 0), LAMBDA t :
    Bind(IF h.scaleSendType = 1 THEN [v |-> ReadBits(s, t.to, 32), to |-> t.to + 32]
         ELSE IF h.scaleSendType = 2 THEN [v |-> ReadThree(s, t.to, 32), to |-> t.to + 96]
         ELSE [v |-> 0, to |-> t.to],
         LAMBDA sc :
    Bind(IF h.velSendType = 1 THEN [v |-> ReadBits(s, sc.to, 32), to |-> sc.to + 32]
         ELSE IF h.velSendType = 2 THEN [v |-> ReadBits(s, sc.to, 39), to |-> sc.to + 39]
         ELSE [v |-> 0, to |-> sc.to],
         LAMBDA vl :
    Bind(IF h.angVelSendType = 1 THEN ReadAxisAngle(s, vl.to) ELSE [v |-> 0, to |-> vl.to],
         LAMBDA av :
         [entry |-> WireEntry(id.v, h.posSendType, t.pos, h.rotSendType, t.rot, h.scaleSendType, sc.v,
                              h.velSendType, vl.v, h.angVelSendType, av.v),
          from |-> p, to |-> av.to]))))))

\* the loop of HandleRigidBodyChanges: entries are read while nine bits are left
RECURSIVE ReadRigidBodyEntries(_, _, _)
ReadRigidBodyEntries(s, p, acc) ==
    IF BitsLeft(s, p) < 9 THEN acc
    ELSE Bind(ReadRigidBodyEntry(s, p), LAMBDA x : ReadRigidBodyEntries(s, x.to, Append(acc, x)))

\* the entries of the bound: every combination of send types, a rotation or an angular
\* velocity of the axis-angle layout with and without the zero-angle sentinel, entity
\* ids of one and of two bytes
WireEntries(ids) ==
    {WireEntry(e, pt, IF pt = 0 THEN 0 ELSE 1, rt, IF rt = 0 THEN 0 ELSE ra, sct, IF sct = 0 THEN 0 ELSE 1,
               vt, IF vt = 0 THEN 0 ELSE 1, at, IF at = 0 THEN 0 ELSE aa) :
        e \in ids, pt \in 0..2, rt \in 0..3, ra \in 0..1, sct \in 0..2, vt \in 0..2, at \in 0..1, aa \in 0..1}

\* an entry with every send type 0 is not written
Written(r) ==
    r.posSendType # 0 \/ r.rotSendType # 0 \/ r.scaleSendType # 0 \/ r.velSendType # 0 \/ r.angVelSendType # 0

\* the entries that follow another in the messages of the bound
NextEntries ==
    {WireEntry(200, 1, 1, 0, 0, 0, 0, 0, 0, 0, 0),
     WireEntry(2, 0, 0, 3, 0, 0, 0, 0, 0, 1, 1),
     WireEntry(2, 2, 1, 3, 1, 2, 1, 2, 1, 1, 0)}

WireInit == InitAll /\ prioritizer = FALSE

\* the sender writes a message of one or two entries
WireWrite ==
    /\ ev.op = "Init"
    /\ \E r \in {x \in WireEntries({1, 200}) : Written(x)} :
       \E rest \in {<<>>} \cup {<<x>> : x \in NextEntries} :
          ev' = [NoEvent EXCEPT !.op = "Write",
                                !.m = WriteRigidBodyEntries(<<r>> \o rest, [stream |-> <<>>, entries |-> <<>>])]
    /\ UNCHANGED <<scene, st, conn, net, gen, types, allow, clock, prioritizer, mgr>>

\* the receiver reads the message
WireRead ==
    /\ ev.op = "Write"
    /\ ev' = [ev EXCEPT !.op = "Read", !.out = ReadRigidBodyEntries(ev.m.stream, 0, <<>>)]
    /\ UNCHANGED <<scene, st, conn, net, gen, types, allow, clock, prioritizer, mgr>>

WireNext ==
    \/ WireWrite
    \/ WireRead

SpecWire == WireInit /\ [][WireNext]_vars

\* C21: the receiver reads every entry of a message at the bit position where it was
\* written and consumes the bits that were written for it, reading the entry that was
\* written, for every combination of send types and both outcomes of the zero-angle
\* sentinel
C21_BitsReadAsWritten == ev.op = "Read" => ev.out = ev.m.entries

\* a message has been read whose first entry has a rotation with the zero-angle
\* sentinel and an angular velocity without it, and whose second entry has been read
C21_Witness ==
    /\ ev.op = "Read"
    /\ Len(ev.out) = 2
    /\ ev.out[1].entry.rotSendType = 3 /\ ev.out[1].entry.rot = 0
    /\ ev.out[1].entry.angVelSendType = 1 /\ ev.out[1].entry.angVel # 0
    /\ ev.out[2].entry.entityId = 200

-----------------------------------------------------------------------------
(* The periods: the server is started with a command line and its          *)
(* application sets the update period and the priority update period.      *)

\* the values of --clientextrapolationtime: absent, not a number, negative, and
\* milliseconds
ExtrapolationParameters ==
    {Null, [ok |-> FALSE, value |-> 0]} \cup {[ok |-> TRUE, value |-> v] : v \in {0 - 100, 0, 100, 250}}

UpdatePeriods == {5, 10, 25, 50, 100, 2000}
PriorityPeriods == {5, 20, 50, 1000, 3000}

PeriodsInit ==
    /\ \E x \in ExtrapolationParameters :
          InitBase([c \in Clients |-> NewConn],
                   [p \in Peers |-> NewSyncManager([NoCommandLine EXCEPT !.clientextrapolationtime =
                                                       IF p = Server THEN x ELSE Null])])
    /\ prioritizer = FALSE

PeriodsSetUpdatePeriod ==
    /\ \E period \in UpdatePeriods : mgr' = [mgr EXCEPT ![Server] = SetUpdatePeriod(@, period)]
    /\ ev' = [NoEvent EXCEPT !.op = "SetUpdatePeriod"]
    /\ UNCHANGED <<scene, st, conn, net, gen, types, allow, clock, prioritizer>>

PeriodsSetPriorityUpdatePeriod ==
    /\ \E period \in PriorityPeriods : mgr' = [mgr EXCEPT ![Server] = SetPriorityUpdatePeriod(@, period)]
    /\ ev' = [NoEvent EXCEPT !.op = "SetPriorityUpdatePeriod"]
    /\ UNCHANGED <<scene, st, conn, net, gen, types, allow, clock, prioritizer>>

PeriodsNext ==
    \/ PeriodsSetUpdatePeriod
    \/ PeriodsSetPriorityUpdatePeriod

SpecPeriods == PeriodsInit /\ [][PeriodsNext]_vars

\* the extrapolation time the command line asks for, in milliseconds, if it does
ExtrapolationGiven(m) ==
    /\ m.commandLine.clientextrapolationtime # Null
    /\ m.commandLine.clientextrapolationtime.ok
    /\ m.commandLine.clientextrapolationtime.value >= 0

\* 1.0 + ms / 1000 / updatePeriod, in thousandths
ExtrapolationOf(m) == 1000 + (m.commandLine.clientextrapolationtime.value * 1000) \div m.updatePeriod

\* C22 as stated: maxLinExtrapTime is 1.0 when --clientextrapolationtime is not given
\* and 1.0 + ms / 1000 / updatePeriod, for the current update period, when a
\* non-negative ms is given, and is at least 1 in all cases
C22_DefaultIsOne ==
    /\ mgr[Server].commandLine.clientextrapolationtime = Null => mgr[Server].maxLinExtrapTime = 1000
    /\ ExtrapolationGiven(mgr[Server]) => mgr[Server].maxLinExtrapTime = ExtrapolationOf(mgr[Server])
    /\ mgr[Server].maxLinExtrapTime >= 1000

\* C22 amended: maxLinExtrapTime is 1.0 + ms / 1000 / updatePeriod, for the current
\* update period, when --clientextrapolationtime gives a non-negative number ms, and 3.0
\* when the parameter is absent, not a number or negative; it is at least 1 in all cases
C22_DefaultIsThree ==
    /\ mgr[Server].maxLinExtrapTime =
          IF ExtrapolationGiven(mgr[Server]) THEN ExtrapolationOf(mgr[Server]) ELSE 3000
    /\ mgr[Server].maxLinExtrapTime >= 1000

\* a later SetUpdatePeriod call has changed the update period of a server that was
\* given a positive extrapolation time
C22_Witness ==
    /\ ev.op = "SetUpdatePeriod"
    /\ ExtrapolationGiven(mgr[Server])
    /\ mgr[Server].commandLine.clientextrapolationtime.value > 0
    /\ mgr[Server].updatePeriod = 100

\* C23: after any sequence of SetUpdatePeriod and SetPriorityUpdatePeriod calls, the
\* priority update period is at least the update period and the update period is at
\* least 0.01 s
C23_PeriodsOrdered ==
    /\ mgr[Server].priorityUpdatePeriod >= mgr[Server].updatePeriod
    /\ mgr[Server].updatePeriod >= 10

-----------------------------------------------------------------------------
(* Interpolation: the server's application moves a rigid body; client c1,  *)
(* started with a command line, receives the updates and runs its frames.  *)

InterpCommandLines ==
    {[clientextrapolationtime |-> x, noclientphysics |-> b] :
        x \in {Null, [ok |-> TRUE, value |-> 0]}, b \in BOOLEAN}

InterpInit ==
    /\ \E cmd \in InterpCommandLines :
          InitBase([c \in Clients |-> NewConn],
                   [p \in Peers |-> NewSyncManager(IF p = "c1" THEN cmd ELSE NoCommandLine)])
    /\ prioritizer = FALSE

InterpStart == \E v \in 0..MaxVal : SyncedStart(RestScene(v), 1, <<"c1">>)

InterpOps ==
    {OpSetAttribute(1, 2, LinearVelocityIndex, v, Replicate) : v \in 0..MaxVal}
    \cup {OpSetAttribute(1, 1, 0, v, Replicate) : v \in {0, FarPos}}

InterpLocal ==
    /\ conn["c1"].connected
    /\ \A l \in Links : net[l] = <<>>
    /\ \E op \in InterpOps : Local(Server, op, FALSE)

InterpServerUpdate == Update(Server, TRUE)
InterpToClient == Deliver(Server, "c1", TRUE)

\* a frame of c1 right after the last, or an update period after it
InterpFrame == \E frametime \in {0, 50} : Frame("c1", frametime, TRUE)

InterpNext ==
    \/ InterpStart
    \/ InterpLocal
    \/ InterpServerUpdate
    \/ InterpToClient
    \/ InterpFrame

SpecInterp == InterpInit /\ [][InterpNext]_vars

\* the entities of client c with a rigid body and an active interpolator
Interpolated(c) ==
    IF ~conn[c].connected \/ st[c][Server] = Null THEN {}
    ELSE {e \in DOMAIN st[c][Server].entityInterpolations :
             /\ st[c][Server].entityInterpolations[e].interpolatorActive
             /\ HasEntity(scene[c], e)
             /\ CompOfType(scene[c][e], RigidBodyTypeId) # 0}

\* C24: on a client, between two operations, the rigid body of an entity whose
\* interpolator is active is not simulated by the local physics
C24_NoPhysicsWhileInterpolating ==
    \A c \in Clients : Interpolated(c) \cap mgr[c].clientExtrapolating = {}

-----------------------------------------------------------------------------
(* Parents: the server's application creates replicated and local entities *)
(* and parents replicated entities to them; client c1 replicates.          *)

ParentInit == InitAll /\ prioritizer = FALSE

ParentStart == SyncedStart(Put(EmptyMap, 1, NewEntity), 1, <<"c1">>)

ParentOps ==
    {OpCreateEntity(local, Replicate) :
        local \in {b \in BOOLEAN : IF b THEN gen[Server].l < 1 ELSE gen[Server].r < MaxEnts}}
    \cup {OpSetParent(e, v, Replicate) : e \in ReplicatedIds(Server), v \in EntityIds(Server) \cup {0}}

ParentLocal ==
    /\ conn["c1"].connected
    /\ \A l \in Links : net[l] = <<>>
    /\ \E op \in ParentOps : Local(Server, op, FALSE)

ParentServerUpdate == Update(Server, TRUE)
ParentToClient == Deliver(Server, "c1", FALSE)

ParentNext ==
    \/ ParentStart
    \/ ParentLocal
    \/ ParentServerUpdate
    \/ ParentToClient

SpecParent == ParentInit /\ [][ParentNext]_vars

\* the parent ids that the CreateEntity and SetEntityParent messages of a pass carry
ParentIdsSent ==
    {ev.out[j][2].parentId :
        j \in {x \in 1..Len(ev.out) : ev.out[x][2].kind \in {"CreateEntity", "SetEntityParent"}}}

\* C25: no CreateEntity or SetEntityParent message carries a parent id of the local
\* range
C25_NoLocalParentOnWire ==
    ev.op = "Update" => \A id \in ParentIdsSent : ~IsLocalId(id)

-----------------------------------------------------------------------------
(* Draining the dirty queue: the server's application changes, removes and *)
(* creates entities between passes, with the removal signalled (Replicate) *)
(* or not (LocalOnly, Disconnected); no interest manager is installed.     *)

DrainInit == InitAll /\ prioritizer = FALSE

DrainStart == SyncedStart(BaseScene, 2, <<"c1">>)

DrainOps ==
    {OpSetAttribute(1, 1, 0, v, Replicate) : v \in 0..MaxVal}
    \cup {OpSetTemporary(2, b, Replicate) : b \in BOOLEAN}
    \cup {OpRemoveEntity(e, change) : e \in EntityIds(Server), change \in ChangeKinds}
    \cup {OpCreateEntity(FALSE, Replicate) : x \in {y \in {1} : gen[Server].r < MaxEnts}}

DrainLocal ==
    /\ conn["c1"].connected
    /\ \A l \in Links : net[l] = <<>>
    /\ \E op \in DrainOps : Local(Server, op, FALSE)

DrainServerUpdate == Update(Server, TRUE)
DrainToClient == Deliver(Server, "c1", TRUE)

DrainNext ==
    \/ DrainStart
    \/ DrainLocal
    \/ DrainServerUpdate
    \/ DrainToClient

SpecDrain == DrainInit /\ [][DrainNext]_vars

\* the ids in the dirty queue of a connection whose entity sync state has been erased
ErasedInQueue(p, k) == SeqRange(st[p][k].dirtyQueue) \ DOMAIN st[p][k].entities

\* C26: every generic sync pass returns, whatever the queued entities are (new, removed,
\* changed, or gone from the scene with no removal signalled); with no interest manager
\* the connection's dirty queue is empty when the pass returns; and no queue ever holds
\* an entry whose entity sync state has been erased from the entities map
C26_PassDrainsQueue ==
    /\ \A p \in Peers : ~mgr[p].stuck
    /\ ev.op = "Update" => \A k \in DOMAIN st[ev.p] : st[ev.p][k] # Null => st[ev.p][k].dirtyQueue = <<>>
    /\ \A p \in Peers : \A k \in DOMAIN st[p] : st[p][k] # Null => ErasedInQueue(p, k) = {}

-----------------------------------------------------------------------------
(* An entity removed and created again between two passes: the server's    *)
(* application creates entities, removes them and creates them again under *)
(* the id they had.                                                        *)

RecreateInit == InitAll /\ prioritizer = FALSE

RecreateStart == SyncedStart(Put(EmptyMap, 1, NewEntity), 1, <<"c1">>)

RecreateOps ==
    {OpCreateEntity(FALSE, Replicate) : x \in {y \in {1} : gen[Server].r < MaxEnts}}
    \cup {OpRemoveEntity(e, Replicate) : e \in EntityIds(Server)}
    \cup {OpCreateEntityWithId(e, Replicate) : e \in 1..MaxEnts}
    \cup {OpSetTemporary(e, b, Replicate) : e \in EntityIds(Server), b \in BOOLEAN}

\* the application acts when the client has caught up
RecreateLocal ==
    /\ conn["c1"].connected
    /\ \A l \in Links : net[l] = <<>>
    /\ st["c1"][Server].dirtyQueue = <<>>
    /\ \E op \in RecreateOps : Local(Server, op, FALSE)

RecreateServerUpdate == Update(Server, TRUE)
RecreateToClient == Deliver(Server, "c1", TRUE)
RecreateClientUpdate == Update("c1", TRUE)

RecreateNext ==
    \/ RecreateStart
    \/ RecreateLocal
    \/ RecreateServerUpdate
    \/ RecreateToClient
    \/ RecreateClientUpdate

SpecRecreate == RecreateInit /\ [][RecreateNext]_vars

\* the entities of the server's scene whose queued state for c1 is both new and removed
NewAndRemoved ==
    IF st[Server]["c1"] = Null THEN {}
    ELSE {e \in SeqRange(st[Server]["c1"].dirtyQueue) \cap DOMAIN scene[Server] :
            /\ e \in DOMAIN st[Server]["c1"].entities
            /\ st[Server]["c1"].entities[e].isNew
            /\ st[Server]["c1"].entities[e].removed}

\* the messages of a kind that the last pass sent about entity e
SentAbout(e, kind) ==
    {j \in 1..Len(ev.out) : ev.out[j][2].kind = kind /\ ev.out[j][2].entityId = MaskId(e)}

\* C29: a pass that finds an entity state both new and removed sends no RemoveEntity for
\* it, clears the removed flag, keeps the state, and sends the entity as a CreateEntity
C29_RemovalDropped ==
    [][\A e \in NewAndRemoved :
          ev'.op = "Update" /\ ev'.p = Server =>
              /\ \A j \in 1..Len(ev'.out) :
                    ~(ev'.out[j][2].kind = "RemoveEntity" /\ ev'.out[j][2].entityId = MaskId(e))
              /\ e \in DOMAIN st'[Server]["c1"].entities
              /\ ~st'[Server]["c1"].entities[e].removed
              /\ \E j \in 1..Len(ev'.out) :
                    ev'.out[j][2].kind = "CreateEntity" /\ ev'.out[j][2].entityId = MaskId(e)]_vars

-----------------------------------------------------------------------------
(* Unacked ids the server never issued: client c1 creates entities that it *)
(* keeps to itself (LocalOnly) next to replicated ones, and parents        *)
(* replicated entities to them.                                            *)

UnackedInit == InitAll /\ prioritizer = FALSE

UnackedStart == SyncedStart(Put(EmptyMap, 1, NewEntity), 1, <<"c1">>)

UnackedOps ==
    {OpCreateEntity(FALSE, change) :
        change \in {c \in {Replicate, LocalOnly} : gen["c1"].u < MaxEnts}}
    \cup {OpSetParent(e, v, Replicate) :
            e \in ReplicatedIds("c1"), v \in {x \in EntityIds("c1") : IsUnackedId(x)}}

UnackedLocal ==
    /\ conn["c1"].connected
    /\ \A l \in Links : net[l] = <<>>
    /\ \E op \in UnackedOps : Local("c1", op, FALSE)
UnackedClientUpdate == Update("c1", FALSE)
UnackedToServer == Deliver("c1", Server, TRUE)
UnackedServerUpdate == Update(Server, FALSE)
UnackedToClient == Deliver(Server, "c1", TRUE)

UnackedNext ==
    \/ UnackedStart
    \/ UnackedLocal
    \/ UnackedClientUpdate
    \/ UnackedToServer
    \/ UnackedServerUpdate
    \/ UnackedToClient

SpecUnacked == UnackedInit /\ [][UnackedNext]_vars

\* an id of the unacked range that is no key of c1's unackedIdsToRealIds
UnknownUnacked(id) == IsUnackedId(id) /\ id \notin DOMAIN conn["c1"].unackedIdsToRealIds

\* the next message from c1 names such an id: a SetEntityParent as its entity or its
\* parent, a CreateEntity as its parent
UnknownInSetEntityParent ==
    /\ net[<<"c1", Server>>] # <<>>
    /\ Head(net[<<"c1", Server>>]).kind = "SetEntityParent"
    /\ \/ UnknownUnacked(Head(net[<<"c1", Server>>]).entityId)
       \/ UnknownUnacked(Head(net[<<"c1", Server>>]).parentId)

UnknownInCreateEntity ==
    /\ net[<<"c1", Server>>] # <<>>
    /\ Head(net[<<"c1", Server>>]).kind = "CreateEntity"
    /\ Head(net[<<"c1", Server>>]).hasParentField
    /\ UnknownUnacked(Head(net[<<"c1", Server>>]).parentId)

ServerReceives == ev'.op = "Deliver" /\ ev'.p = Server

\* C30 as stated: the server drops a SetEntityParent or CreateEntity message of a client
\* that names an unacked id it never issued: the scene is unchanged, no entity is
\* created and no reply is sent
C30_UnknownUnackedDropped ==
    [][(UnknownInSetEntityParent \/ UnknownInCreateEntity) /\ ServerReceives =>
          scene'[Server] = scene[Server] /\ ev'.out = <<>>]_vars

\* C30 amended: a SetEntityParent naming such an id is dropped, with the scene unchanged
\* and nothing sent; a CreateEntity whose parent is such an id still creates the entity,
\* with no parent, and is answered with a CreateEntityReply
C30_OnlySetEntityParentDropped ==
    [][ServerReceives =>
          /\ UnknownInSetEntityParent => scene'[Server] = scene[Server] /\ ev'.out = <<>>
          /\ UnknownInCreateEntity =>
                /\ \E e \in DOMAIN scene'[Server] \ DOMAIN scene[Server] :
                      /\ scene'[Server][e].parent = 0
                      /\ DOMAIN scene'[Server] = DOMAIN scene[Server] \cup {e}
                /\ Len(ev'.out) = 1
                /\ ev'.out[1][2].kind = "CreateEntityReply"]_vars

C30_Witness ==
    /\ ev.op = "Deliver" /\ ev.p = Server /\ ev.m # Null
    /\ ev.m.kind = "CreateEntity"
    /\ UnknownUnacked(ev.m.parentId)
    /\ ev.out # <<>>
    /\ \E e \in DOMAIN scene["c1"] :
          IsUnackedId(e) /\ scene["c1"][e].parent = ev.m.parentId

-----------------------------------------------------------------------------
(* Priority updates: an interest manager is installed, two clients are     *)
(* connected, the application has set the priority update period, and time *)
(* passes between the server's ticks.                                      *)

PrioPeriods == {50, 100}

PrioInit ==
    /\ \E period \in PrioPeriods :
          InitBase([c \in Clients |-> NewConn],
                   [p \in Peers |-> SetPriorityUpdatePeriod(NewSyncManager(NoCommandLine), period)])
    /\ prioritizer = TRUE

PrioStart == SyncedStart(BaseScene, 2, ClientSeq)

PrioOps ==
    {OpSetAttribute(1, 1, 0, v, Replicate) : v \in 0..MaxVal}
    \cup {OpSetTemporary(2, b, Replicate) : b \in BOOLEAN}

PrioLocal ==
    /\ \A c \in Clients : conn[c].connected
    /\ \A l \in Links : net[l] = <<>>
    /\ \E op \in PrioOps : Local(Server, op, FALSE)

PrioServerUpdate == Update(Server, TRUE)
PrioToClient == \E c \in Clients : Deliver(Server, c, FALSE)

PrioNext ==
    \/ PrioStart
    \/ PrioLocal
    \/ Tick
    \/ PrioServerUpdate
    \/ PrioToClient

SpecPrio == PrioInit /\ [][PrioNext]_vars

\* the connections whose priorities the last pass recomputed
Recomputed == {s[5] : s \in {x \in ev.sig : x[1] = "ComputeSyncPriorities"}}

\* C28: a server tick with a prioritizer installed and the accumulated priority time at
\* or past priorityUpdatePeriod recomputes the sync priorities of every connection that
\* has a sync state
C28_EveryConnectionRecomputed ==
    [][/\ prioritizer
       /\ mgr[Server].prioUpdateAcc >= mgr[Server].priorityUpdatePeriod
       /\ ev'.op = "Update" /\ ev'.p = Server
       => \A k \in Clients : st[Server][k] # Null =>
             <<"ComputeSyncPriorities", 0, 0, 0, k>> \in ev'.sig]_vars

-----------------------------------------------------------------------------
(* Skipped entities: an interest manager is installed; entity 1 has a       *)
(* Placeable and a rigid body, whose Transform and velocities the server's *)
(* application changes while time passes between the ticks.                *)

SkipInit == InitAll /\ prioritizer = TRUE

SkipStart == \E v \in 0..MaxVal : SyncedStart(RestScene(v), 1, <<"c1">>)

SkipOps ==
    {OpSetAttribute(1, 1, 0, v, Replicate) : v \in {0, FarPos}}
    \cup {OpSetAttribute(1, 2, i, v, Replicate) :
            i \in {LinearVelocityIndex, AngularVelocityIndex}, v \in 0..MaxVal}

SkipLocal ==
    /\ conn["c1"].connected
    /\ \A l \in Links : net[l] = <<>>
    /\ \E op \in SkipOps : Local(Server, op, FALSE)

SkipServerUpdate == Update(Server, TRUE)
SkipToClient == Deliver(Server, "c1", FALSE)
SkipTick == conn["c1"].connected /\ Tick

SkipNext ==
    \/ SkipStart
    \/ SkipLocal
    \/ SkipTick
    \/ SkipServerUpdate
    \/ SkipToClient

SpecSkip == SkipInit /\ [][SkipNext]_vars

\* the queued entities of c1's sync state that a tick at this time skips: the time since
\* the last send is below the prioritized update interval
SkippedNow ==
    IF st[Server]["c1"] = Null THEN {}
    ELSE {e \in SeqRange(st[Server]["c1"].dirtyQueue) \cap DOMAIN st[Server]["c1"].entities :
            clock - st[Server]["c1"].entities[e].lastNetworkSendTime
                < st[Server]["c1"].entities[e].interval}

\* C27: with interest management, an entity that a tick skips for its connection stays
\* in the connection's dirty queue with all its pending changes, the Transform and
\* velocity dirty bits among them, as they were (to be sent by a later tick)
C27_SkippedKeepsChanges ==
    [][prioritizer /\ ev'.op = "Update" /\ ev'.p = Server =>
          \A e \in SkippedNow :
              /\ e \in SeqRange(st'[Server]["c1"].dirtyQueue)
              /\ st'[Server]["c1"].entities[e] = st[Server]["c1"].entities[e]]_vars

-----------------------------------------------------------------------------
(* Missing targets: entity 1 has two components with dynamic attributes,   *)
(* entities 2 and 3 a Placeable each; the client's application removes a   *)
(* component or an entity from its own scene only, the server's            *)
(* application goes on changing both.                                      *)

MissingScene ==
    LET comp == [typeId |-> 2, attrs |-> Put(EmptyMap, 0, 0)]
        body == [NewEntity EXCEPT !.comps = Put(EmptyMap, 1, NewComponent(PlaceableTypeId)), !.genR = 1]
    IN Put(Put(Put(EmptyMap, 1, [NewEntity EXCEPT !.comps = Put(Put(EmptyMap, 1, comp), 2, comp),
                                                  !.genR = 2]),
               2, body),
           3, body)

MissingInit == InitAll /\ prioritizer = FALSE

MissingStart == SyncedStart(MissingScene, 3, <<"c1">>)

\* the calls of the server's application
MissingServerOps ==
    {OpCreateAttribute(1, c, 1, Replicate) : c \in 1..2}
    \cup {OpSetAttribute(1, c, 0, 1, Replicate) : c \in 1..2}
    \cup {OpRemoveAttribute(1, c, 0, Replicate) : c \in 1..2}
    \cup {OpRemoveComponent(1, c, Replicate) : c \in 1..2}
    \cup {OpSetAttribute(e, 1, 0, FarPos, Replicate) : e \in 2..3}

\* the calls of the client's application: nothing of them is replicated
MissingClientOps ==
    {OpRemoveComponent(1, 1, LocalOnly), OpRemoveEntity(2, LocalOnly)}

\* between two passes the server's application changes entity 1, or entities 2 and 3
MissingServerLocal ==
    /\ conn["c1"].connected
    /\ net[<<Server, "c1">>] = <<>>
    /\ \E op \in MissingServerOps :
          /\ QueuedIds(Server) \subseteq (IF op.e = 1 THEN {1} ELSE 2..3)
          /\ Local(Server, op, FALSE)

\* the client changes its scene before the server's application has changed anything
MissingClientLocal ==
    /\ conn["c1"].connected
    /\ scene[Server] = MissingScene
    /\ \E op \in MissingClientOps : Local("c1", op, FALSE)

MissingServerUpdate == Update(Server, FALSE)
MissingToClient == Deliver(Server, "c1", TRUE)

MissingNext ==
    \/ MissingStart
    \/ MissingServerLocal
    \/ MissingClientLocal
    \/ MissingServerUpdate
    \/ MissingToClient

SpecMissing == MissingInit /\ [][MissingNext]_vars

\* the next message to c1
NextToClient == Head(net[<<Server, "c1">>])

SubRecordKinds ==
    {"CreateAttributes", "EditAttributes", "RemoveAttributes", "RemoveComponents", "RigidBodyUpdate"}

\* the sub-records of a message, by position
SubRecords(m) ==
    CASE m.kind \in {"CreateAttributes", "RemoveAttributes"} -> m.attrs
      [] m.kind \in {"EditAttributes", "RemoveComponents"} -> m.comps
      [] m.kind = "RigidBodyUpdate" -> m.entries
      [] OTHER -> <<>>

\* whether sub-record x of message m names an entity or a component the scene sc lacks
NamesMissing(sc, m, x) ==
    CASE m.kind \in {"CreateAttributes", "RemoveAttributes", "EditAttributes"} ->
            ~HasComp(sc, m.entityId, x.compId)
      [] m.kind = "RemoveComponents" -> ~HasComp(sc, m.entityId, x)
      [] m.kind = "RigidBodyUpdate" -> ~HasEntity(sc, x.entityId)

\* the <<index, value>> pairs of an EditAttributes block
EditsOf(b) ==
    IF b.method = 0 THEN {<<b.list[j].index, b.list[j].value>> : j \in 1..Len(b.list)}
    ELSE {<<j - 1, b.list[j].value>> : j \in {x \in 1..Len(b.list) : b.list[x].changed}}

\* whether sub-record x of message m is applied in scene sc and sync state s, with the
\* signals sig emitted
Applied(sc, s, sig, m, x) ==
    CASE m.kind = "CreateAttributes" ->
            /\ HasAttr(sc, m.entityId, x.compId, x.index)
            /\ sc[m.entityId].comps[x.compId].attrs[x.index] = x.value
            /\ <<"AttributeChanged", m.entityId, x.compId, x.index, LocalOnly>> \in sig
      [] m.kind = "RemoveAttributes" ->
            /\ ~HasAttr(sc, m.entityId, x.compId, x.index)
            /\ <<"AttributeRemoved", m.entityId, x.compId, x.index, LocalOnly>> \in sig
      [] m.kind = "EditAttributes" ->
            \A ed \in EditsOf(x) :
                /\ HasAttr(sc, m.entityId, x.compId, ed[1])
                /\ sc[m.entityId].comps[x.compId].attrs[ed[1]] = ed[2]
                /\ <<"AttributeChanged", m.entityId, x.compId, ed[1], LocalOnly>> \in sig
      [] m.kind = "RemoveComponents" ->
            /\ ~HasComp(sc, m.entityId, x)
            /\ <<"ComponentRemoved", m.entityId, x, 0, LocalOnly>> \in sig
      [] m.kind = "RigidBodyUpdate" ->
            /\ x.entityId \in DOMAIN s.entityInterpolations
            /\ x.posSendType # 0 => s.entityInterpolations[x.entityId].end = x.pos

\* the next message to c1 is of a kind with sub-records, its entity exists, and one of
\* its sub-records names a target c1 lacks
MissingTarget ==
    /\ net[<<Server, "c1">>] # <<>>
    /\ NextToClient.kind \in SubRecordKinds
    /\ NextToClient.kind # "RigidBodyUpdate" => HasEntity(scene["c1"], NextToClient.entityId)
    /\ \E j \in 1..Len(SubRecords(NextToClient)) :
          NamesMissing(scene["c1"], NextToClient, SubRecords(NextToClient)[j])

ClientReceives == ev'.op = "Deliver" /\ ev'.p = "c1"

\* C31 as stated: when a sub-record of an inbound message names an entity or component
\* the receiver lacks, only that sub-record is skipped, and every sub-record of the
\* message that names an existing target is applied and signalled
C31_OnlyMissingSkipped ==
    [][MissingTarget /\ ClientReceives =>
          \A j \in 1..Len(SubRecords(NextToClient)) :
              ~NamesMissing(scene["c1"], NextToClient, SubRecords(NextToClient)[j]) =>
                  Applied(scene'["c1"], st'["c1"][Server], ev'.sig, NextToClient,
                          SubRecords(NextToClient)[j])]_vars

-----------------------------------------------------------------------------
(* Omitted fields of a RigidBodyUpdate entry: a client holds an entity     *)
(* with a Placeable and receives a first entry for it, then a second one.  *)

\* Quat::identity
IdentityRot == 0

\* a full entry: the five send types and the values the entry carries; an angular
\* velocity of 0 is written as the zero quantized angle
FullEntry(posSendType, rotSendType, scaleSendType, velSendType, angVelSendType, v, angVel) ==
    [posSendType |-> posSendType, pos |-> IF posSendType # 0 THEN v ELSE 0,
     rotSendType |-> rotSendType, rot |-> IF rotSendType # 0 THEN v ELSE 0,
     scaleSendType |-> scaleSendType, scale |-> IF scaleSendType # 0 THEN v ELSE 0,
     velSendType |-> velSendType, vel |-> IF velSendType # 0 THEN v ELSE 0,
     angVelSendType |-> angVelSendType, angVel |-> IF angVelSendType # 0 THEN angVel ELSE 0]

\* the interpolation state of an entity after the entry r (1229-1353): orig is the
\* Placeable's transform, body the rigid body (Null when the entity has none), before
\* the entity's interpolation state (Null when it has none)
InterpolationAfter(orig, body, before, r) ==
    LET bodyVel == IF body # Null THEN body.linearVelocity ELSE 0
        bodyAngVel == IF body # Null THEN body.angularVelocity ELSE 0
        \* t is the Placeable's transform with the position and scale read into it and
        \* the orientation set from a quaternion that starts as the identity
        t == [pos |-> IF r.posSendType # 0 THEN r.pos ELSE orig.pos,
              rot |-> IF r.rotSendType # 0 THEN r.rot ELSE IdentityRot,
              scale |-> IF r.scaleSendType # 0 THEN r.scale ELSE orig.scale]
        newLinearVel == IF r.velSendType # 0 THEN r.vel
                        ELSE IF before # Null THEN before.interpEnd.vel ELSE bodyVel
        \* the axis is read only after a quantized angle that is not zero
        newAngVel == IF r.angVelSendType = 1 /\ r.angVel # 0 THEN r.angVel ELSE bodyAngVel
        isNewtonian == body # Null /\ body.mass > 0
        curVel == IF before.interpTime < 1000
                  THEN Blend(before.interpStart.vel, before.interpEnd.vel, before.interpTime)
                  ELSE before.interpEnd.vel
        anything == \/ r.posSendType # 0 \/ r.rotSendType # 0 \/ r.scaleSendType # 0
                    \/ r.velSendType # 0 \/ r.angVelSendType # 0
    IN IF ~anything THEN before
       ELSE IF before # Null
       THEN [interpStart |-> [pos |-> orig.pos, rot |-> orig.rot, scale |-> orig.scale,
                              vel |-> IF isNewtonian THEN curVel ELSE 0, angVel |-> 0],
             interpEnd |-> [pos |-> IF r.posSendType # 0 THEN t.pos ELSE before.interpEnd.pos,
                            rot |-> IF r.rotSendType # 0 THEN t.rot ELSE before.interpEnd.rot,
                            scale |-> IF r.scaleSendType # 0 THEN t.scale ELSE before.interpEnd.scale,
                            vel |-> IF ~isNewtonian THEN 0
                                    ELSE IF r.velSendType # 0 THEN newLinearVel
                                    ELSE before.interpEnd.vel,
                            angVel |-> IF r.angVelSendType # 0 THEN newAngVel
                                       ELSE before.interpEnd.angVel],
             interpTime |-> 0, interpolatorActive |-> TRUE]
       ELSE [interpStart |-> [pos |-> orig.pos, rot |-> orig.rot, scale |-> orig.scale,
                              vel |-> bodyVel, angVel |-> bodyAngVel],
             interpEnd |-> [pos |-> t.pos, rot |-> t.rot, scale |-> t.scale,
                            vel |-> newLinearVel, angVel |-> newAngVel],
             interpTime |-> 0, interpolatorActive |-> TRUE]

\* the transforms an entity has when an entry arrives: the default one and a moved,
\* turned and scaled one
CarryTransforms == {[pos |-> 0, rot |-> IdentityRot, scale |-> 0], [pos |-> 1, rot |-> 1, scale |-> 1]}

\* no rigid body, a body without mass, a body with mass
CarryBodies ==
    {Null} \cup {[mass |-> m, linearVelocity |-> 1, angularVelocity |-> 1] : m \in 0..1}

\* the value an entry carries differs from every value the entity has
CarryValue == 2

CarryEntries ==
    {r \in {FullEntry(pt, rt, sct, vt, at, CarryValue, aa) :
                pt \in 0..1, rt \in 0..1, sct \in 0..1, vt \in 0..1, at \in 0..1, aa \in {0, CarryValue}} :
        \/ r.posSendType # 0 \/ r.rotSendType # 0 \/ r.scaleSendType # 0
        \/ r.velSendType # 0 \/ r.angVelSendType # 0}

CarryInit == InitAll /\ prioritizer = FALSE

\* the first entry ever received for the entity
CarryFirst ==
    /\ ev.op = "Init"
    /\ \E orig \in CarryTransforms : \E body \in CarryBodies : \E r \in CarryEntries :
          ev' = [NoEvent EXCEPT !.op = "First",
                                !.m = [orig |-> orig, body |-> body, before |-> Null, entry |-> r],
                                !.out = InterpolationAfter(orig, body, Null, r)]
    /\ UNCHANGED <<scene, st, conn, net, gen, types, allow, clock, prioritizer, mgr>>

\* a later entry for the entity
CarryNext ==
    /\ ev.op = "First"
    /\ \E r \in CarryEntries :
          ev' = [ev EXCEPT !.op = "Next",
                           !.m = [ev.m EXCEPT !.before = ev.out, !.entry = r],
                           !.out = InterpolationAfter(ev.m.orig, ev.m.body, ev.out, r)]
    /\ UNCHANGED <<scene, st, conn, net, gen, types, allow, clock, prioritizer, mgr>>

CarryStep == CarryFirst \/ CarryNext

SpecCarry == CarryInit /\ [][CarryStep]_vars

CarryFields == {"pos", "rot", "scale", "vel", "angVel"}

\* whether the entry omits the field
Omits(r, f) ==
    CASE f = "pos" -> r.posSendType = 0
      [] f = "rot" -> r.rotSendType = 0
      [] f = "scale" -> r.scaleSendType = 0
      [] f = "vel" -> r.velSendType = 0
      [] f = "angVel" -> r.angVelSendType = 0

\* the entity's current value of the field
CurrentValue(orig, body, f) ==
    CASE f = "pos" -> orig.pos
      [] f = "rot" -> orig.rot
      [] f = "scale" -> orig.scale
      [] f = "vel" -> IF body # Null THEN body.linearVelocity ELSE 0
      [] f = "angVel" -> IF body # Null THEN body.angularVelocity ELSE 0

\* C32 as stated: for every accepted entry, the first one included, each field the entry
\* omits keeps the receiver's previous value as the interpolation end value: the entity's
\* current value when there is no interpolation state yet, else the previous end value
C32_OmittedCarried ==
    ev.op \in {"First", "Next"} =>
        \A f \in CarryFields :
            Omits(ev.m.entry, f) =>
                ev.out.interpEnd[f] = IF ev.m.before = Null
                                      THEN CurrentValue(ev.m.orig, ev.m.body, f)
                                      ELSE ev.m.before.interpEnd[f]

-----------------------------------------------------------------------------
(* Hand-off: the server's application changes the linear and the angular   *)
(* velocity of a body at rest; client c1, started with or without          *)
(* --noclientphysics, receives the updates and runs its frames.            *)

HandOffStart == SyncedStart(RestScene(0), 1, <<"c1">>)

HandOffOps ==
    {OpSetAttribute(1, 2, i, v, Replicate) :
        i \in {LinearVelocityIndex, AngularVelocityIndex}, v \in 0..MaxVal}

HandOffLocal ==
    /\ conn["c1"].connected
    /\ \A l \in Links : net[l] = <<>>
    /\ \E op \in HandOffOps : Local(Server, op, FALSE)

HandOffServerUpdate == Update(Server, FALSE)
HandOffToClient == Deliver(Server, "c1", TRUE)

\* a frame of c1 right after the last, or an update period after it
HandOffFrame == \E frametime \in {0, 50} : Frame("c1", frametime, TRUE)

HandOffNext ==
    \/ HandOffStart
    \/ HandOffLocal
    \/ HandOffServerUpdate
    \/ HandOffToClient
    \/ HandOffFrame

SpecHandOff == InterpInit /\ [][HandOffNext]_vars

\* the velocity i of entity 1 that c1 has last received: with nothing in flight, the
\* value the server has recorded as last sent to c1 (1172-1197), which is the value the
\* entity was created with until a RigidBodyUpdate carries another
LastReceived(i) ==
    LET ess == st[Server]["c1"].entities[1]
    IN IF i = LinearVelocityIndex THEN ess.linearVelocity ELSE ess.angularVelocity

\* c1's interpolation of entity 1 is active and the frame takes its interpTime to
\* maxLinExtrapTime
ReachesMaxLinExtrapTime ==
    /\ ev'.op = "Frame"
    /\ conn["c1"].connected
    /\ 1 \in DOMAIN Interpolations(st)
    /\ Interpolations(st)[1].interpolatorActive
    /\ 1 \in DOMAIN Interpolations(st')
    /\ Interpolations(st')[1].interpTime >= mgr["c1"].maxLinExtrapTime

\* the hand-off leaves the state in the table, inactive, and without --noclientphysics
\* the body is simulated exactly when a velocity last received is not at rest, from the
\* velocities of interpEnd
HandedOff ==
    LET r == Interpolations(st')[1]
        body == scene'["c1"][1].comps[2].attrs
    IN /\ ~r.interpolatorActive
       /\ ~mgr["c1"].noClientPhysicsHandoff =>
             /\ 1 \in mgr'["c1"].clientExtrapolating
                   <=> (LastReceived(LinearVelocityIndex) # 0
                        \/ LastReceived(AngularVelocityIndex) # 0)
             /\ body[LinearVelocityIndex] = r.endVel
             /\ body[AngularVelocityIndex] = r.endAngVel

\* C33: on the frame at which an active interpolation's interpTime reaches
\* maxLinExtrapTime the state stays in the table with interpolatorActive false; without
\* --noclientphysics the body's clientExtrapolating becomes true exactly when the last
\* received linear or angular velocity is not at rest, and its velocities are those of
\* interpEnd; with --noclientphysics clientExtrapolating is never set
C33_HandOff ==
    [][/\ ReachesMaxLinExtrapTime /\ net[<<Server, "c1">>] = <<>> => HandedOff
       /\ mgr["c1"].noClientPhysicsHandoff => mgr'["c1"].clientExtrapolating = {}]_vars

-----------------------------------------------------------------------------
(* Queued actions: the server's application executes actions for its peers *)
(* and changes the scene between two passes, with and without interest     *)
(* management; client c1 replicates.                                       *)

QueueInit == InitAll /\ prioritizer \in BOOLEAN

QueueStart == SyncedStart(BaseScene, 2, <<"c1">>)

ActionNames == {"Hello", "Bye"}

\* the longest queue of actions between two passes
MaxQueued == 2

QueueOps ==
    {OpExec(e, name, ExecPeers) : e \in 1..2, name \in ActionNames}
    \cup {OpSetAttribute(1, 1, 0, v, Replicate) : v \in 0..MaxVal}
    \cup {OpSetTemporary(2, b, Replicate) : b \in BOOLEAN}
    \cup {OpRemoveEntity(2, Replicate)}

QueueLocal ==
    /\ conn["c1"].connected
    /\ net[<<Server, "c1">>] = <<>>
    /\ Len(st[Server]["c1"].queuedActions) < MaxQueued
    /\ \E op \in QueueOps : Local(Server, op, FALSE)

QueueServerUpdate == Update(Server, TRUE)
QueueToClient == Deliver(Server, "c1", FALSE)
QueueTick == conn["c1"].connected /\ Tick

QueueNext ==
    \/ QueueStart
    \/ QueueLocal
    \/ QueueServerUpdate
    \/ QueueToClient
    \/ QueueTick

SpecQueue == QueueInit /\ [][QueueNext]_vars

\* the step is a pass of the server for c1 that returns
PassReturns ==
    /\ ev'.op = "Update" /\ ev'.p = Server
    /\ st[Server]["c1"] # Null /\ st'[Server]["c1"] # Null
    /\ ~mgr'[Server].stuck

\* C34: a pass sends the connection's queued actions in the order they were queued, each
\* once, after every scene message of the pass, and leaves queuedActions empty, also when
\* interest management skips entities
C34_ActionsAfterSceneSync ==
    [][PassReturns =>
          LET sent == MessagesTo(ev'.out, "c1")
              queued == st[Server]["c1"].queuedActions
              first == Len(sent) - Len(queued)
          IN /\ first >= 0
             /\ SubSeq(sent, first + 1, Len(sent)) = queued
             /\ \A j \in 1..first : sent[j].kind # "EntityAction"
             /\ st'[Server]["c1"].queuedActions = <<>>]_vars

\* a pass has sent a scene message and then two different queued actions, in their order
C34_Witness ==
    /\ ev.op = "Update" /\ ev.p = Server
    /\ Len(SentTo("c1")) = 3
    /\ SentTo("c1")[1].kind = "EditAttributes"
    /\ SentTo("c1")[2].kind = "EntityAction" /\ SentTo("c1")[2].name = "Hello"
    /\ SentTo("c1")[3].kind = "EntityAction" /\ SentTo("c1")[3].name = "Bye"
    /\ st[Server]["c1"].queuedActions = <<>>

\* with interest management, a pass has skipped the changed entity and sent the actions
C34_WitnessSkipped ==
    /\ prioritizer
    /\ ev.op = "Update" /\ ev.p = Server
    /\ Len(SentTo("c1")) = 1
    /\ SentTo("c1")[1].kind = "EntityAction"
    /\ st[Server]["c1"].dirtyQueue # <<>>

-----------------------------------------------------------------------------
(* Rigid-body bits: the server's application moves an entity with a rigid  *)
(* body, changes the body's mass and velocities and removes and creates    *)
(* the body; client c1 is a kNet client or a web client of an older        *)
(* protocol version, with and without interest management.                 *)

BitsConns ==
    {NewConn, [NewConn EXCEPT !.kNet = FALSE, !.protocolVersion = ProtocolCustomComponents]}

BitsInit ==
    /\ \E c0 \in BitsConns : InitOver([c \in Clients |-> c0])
    /\ prioritizer \in BOOLEAN

BitsStart == SyncedStart(RestScene(0), 1, <<"c1">>)

\* the most components the application gives the entity
BitsComps == 3

\* the application moves the body and changes its mass and velocities
BitsMoves ==
    {OpSetAttribute(1, 1, 0, v, Replicate) : v \in {0, FarPos}}
    \cup {OpSetAttribute(1, 2, i, v, Replicate) :
             i \in {MassIndex, LinearVelocityIndex}, v \in 0..MaxVal}

\* without interest management it also changes the angular velocity and replaces the body
BitsOps ==
    IF prioritizer THEN BitsMoves
    ELSE BitsMoves
         \cup {OpSetAttribute(1, 2, AngularVelocityIndex, v, Replicate) : v \in 0..MaxVal}
         \cup {OpSetAttribute(1, c, i, v, Replicate) :
                  c \in 3..BitsComps, i \in {LinearVelocityIndex, AngularVelocityIndex},
                  v \in 0..MaxVal}
         \cup {OpRemoveComponent(1, 2, Replicate)}
         \cup {OpCreateComponent(1, RigidBodyTypeId, FALSE, Replicate)}

\* the application changes the entity when the last pass's messages have been handled,
\* and gives it a rigid body when it has none
BitsLocal ==
    /\ conn["c1"].connected
    /\ net[<<Server, "c1">>] = <<>>
    /\ \E op \in BitsOps :
          /\ op.kind = "CreateComponent" =>
                /\ CompOfType(scene[Server][1], RigidBodyTypeId) = 0
                /\ scene[Server][1].genR < BitsComps
          /\ Local(Server, op, FALSE)

\* a pass runs when the messages of the last have been handled
BitsServerUpdate == net[<<Server, "c1">>] = <<>> /\ Update(Server, TRUE)
BitsToClient == Deliver(Server, "c1", FALSE)
\* time matters to interest management only
BitsTick == conn["c1"].connected /\ prioritizer /\ Tick

BitsNext ==
    \/ BitsStart
    \/ BitsLocal
    \/ BitsServerUpdate
    \/ BitsToClient
    \/ BitsTick

SpecBits == BitsInit /\ [][BitsNext]_vars

\* connection c gets the rigid-body pass (996-1003)
GetsRigidBodyPass(c) ==
    /\ st[Server][c] # Null
    /\ conn[c].kNet \/ conn[c].protocolVersion >= ProtocolWebClientRigidBodyMessage

\* the entities in c's dirty queue that have a Placeable and are neither new nor removed
QueuedPlaceables(c) ==
    {e \in SeqRange(st[Server][c].dirtyQueue) :
        /\ HasEntity(scene[Server], e)
        /\ CompOfType(scene[Server][e], PlaceableTypeId) # 0
        /\ e \in DOMAIN st[Server][c].entities
        /\ ~st[Server][c].entities[e].isNew /\ ~st[Server][c].entities[e].removed}

\* the attributes of entity e the rigid-body pass replicates: the Placeable's transform
\* and the body's linear and angular velocity
RigidBodyAttrs(e) ==
    LET pc == CompOfType(scene[Server][e], PlaceableTypeId)
        rc == CompOfType(scene[Server][e], RigidBodyTypeId)
    IN {<<pc, 0>>} \cup (IF rc # 0 THEN {<<rc, LinearVelocityIndex>>, <<rc, AngularVelocityIndex>>}
                         ELSE {})

\* the dirty bits of entity e in sync state s
DirtyOf(s, e) ==
    UNION {{<<c, i>> : i \in s.entities[e].components[c].dirtyAttributes} :
              c \in DOMAIN s.entities[e].components}

\* the attributes of entity e that the EditAttributes messages among msgs carry
EditedIn(msgs, e) ==
    UNION {UNION {{<<msgs[j].comps[x].compId, ed[1]>> : ed \in EditsOf(msgs[j].comps[x])} :
                     x \in 1..Len(msgs[j].comps)} :
              j \in {y \in 1..Len(msgs) : msgs[y].kind = "EditAttributes" /\ msgs[y].entityId = e}}

\* the step is a pass of the server in which c1 gets the rigid-body pass
RigidBodyPassed == ev'.op = "Update" /\ ev'.p = Server /\ GetsRigidBodyPass("c1")

\* C35 as stated: in a pass of the server, for a connection that gets the rigid-body
\* pass and a queued entity with a Placeable that is neither new nor removed, the
\* rigid-body pass leaves the Placeable's transform bit and the body's two velocity bits
\* clear, and no EditAttributes of the pass to that connection carries these attributes
C35_RigidBodyBitsCleared ==
    [][RigidBodyPassed =>
          \A e \in QueuedPlaceables("c1") :
              /\ DirtyOf(ReplicateRigidBodyChanges(World(Server), "c1").st["c1"], e)
                    \cap RigidBodyAttrs(e) = {}
              /\ EditedIn(MessagesTo(ev'.out, "c1"), e) \cap RigidBodyAttrs(e) = {}]_vars

\* the attributes of RigidBodyAttrs(e) in components whose sync state for connection c is
\* neither new nor removed
TrackedAttrs(c, e) ==
    LET comps == st[Server][c].entities[e].components
    IN {a \in RigidBodyAttrs(e) :
           a[1] \in DOMAIN comps /\ ~comps[a[1]].isNew /\ ~comps[a[1]].removed}

\* C35: in a pass of the server, for a connection that gets the rigid-body pass and a
\* queued entity with a Placeable that is neither new nor removed, the rigid-body pass
\* clears the transform bit of the Placeable and the two velocity bits of the rigid body
\* when the component's sync state is neither new nor removed, and no EditAttributes of
\* the pass to that connection carries the transform or the velocities
C35_TrackedBitsCleared ==
    [][RigidBodyPassed =>
          \A e \in QueuedPlaceables("c1") :
              /\ DirtyOf(ReplicateRigidBodyChanges(World(Server), "c1").st["c1"], e)
                    \cap TrackedAttrs("c1", e) = {}
              /\ EditedIn(MessagesTo(ev'.out, "c1"), e) \cap RigidBodyAttrs(e) = {}]_vars

\* a pass has sent c1 the body's move in a RigidBodyUpdate and its mass, and nothing
\* else, in an EditAttributes
C35_Witness ==
    /\ ev.op = "Update" /\ ev.p = Server
    /\ conn["c1"].kNet
    /\ \E j \in 1..Len(SentTo("c1")) :
          /\ SentTo("c1")[j].kind = "RigidBodyUpdate"
          /\ SentTo("c1")[j].entries[1].posSendType # 0
          /\ SentTo("c1")[j].entries[1].velSendType # 0
    /\ EditedIn(SentTo("c1"), 1) = {<<2, MassIndex>>}

-----------------------------------------------------------------------------
(* Round trip of EditAttributes: the applications of the server and of     *)
(* client c1 change and remove the dynamic attributes of a component of 3  *)
(* slots and of one of 17 slots with holes.                                *)

TripScene ==
    LET narrow == [typeId |-> 2, attrs |-> Put(Put(Put(EmptyMap, 0, 0), 1, 0), 2, 0)]
        wide == [typeId |-> 2, attrs |-> Put(Put(EmptyMap, 0, 0), WideIndex, 0)]
    IN Put(Put(EmptyMap, 1, [NewEntity EXCEPT !.comps = Put(EmptyMap, 1, narrow), !.genR = 1]),
           2, [NewEntity EXCEPT !.comps = Put(EmptyMap, 1, wide), !.genR = 1])

TripInit == InitAll /\ prioritizer = FALSE

TripStart == SyncedStart(TripScene, 2, <<"c1">>)

\* the server's application sets the last two attributes of the narrow component and
\* the first of the wide one; either application removes the middle attribute of the
\* narrow component
TripOps(p) ==
    (IF IsServer(p)
     THEN {OpSetAttribute(1, 1, i, v, Replicate) : i \in 1..2, v \in Values}
          \cup {OpSetAttribute(2, 1, 0, v, Replicate) : v \in Values}
     ELSE {})
    \cup {OpRemoveAttribute(1, 1, 1, Replicate)}

\* an application changes its scene while nothing is in flight
TripLocal ==
    /\ conn["c1"].connected
    /\ \A l \in Links : net[l] = <<>>
    /\ \E p \in {Server, "c1"} : \E op \in TripOps(p) : Local(p, op, FALSE)

TripServerUpdate == Update(Server, TRUE)
TripClientUpdate == Update("c1", TRUE)
TripToClient == Deliver(Server, "c1", FALSE)
TripToServer == Deliver("c1", Server, FALSE)

TripNext ==
    \/ TripStart
    \/ TripLocal
    \/ TripServerUpdate
    \/ TripClientUpdate
    \/ TripToClient
    \/ TripToServer

SpecTrip == TripInit /\ [][TripNext]_vars

\* the connection a pass of peer p sends to
TripLink(p) == IF IsServer(p) THEN "c1" ELSE Server

\* the <<index, value>> pairs the decoder applies for block b in a component with the
\* attribute list of comp (2625-2685)
Decoded(comp, b) ==
    SeqRange(IF b.method = 0 THEN ReadIndexList(comp, b.list) ELSE ReadBitMask(comp, b.list, 0))

\* the dirty attributes of component c of entity e that exist, before the pass of peer p,
\* those with a creation or removal on record aside (1714-1718, 1761-1779)
DirtyExisting(p, e, c) ==
    LET cs == st[p][TripLink(p)].entities[e].components[c]
    IN {i \in cs.dirtyAttributes \ DOMAIN cs.newAndRemovedAttributes :
           i \in DOMAIN scene[p][e].comps[c].attrs}

\* the EditAttributes blocks of the step's pass, each with its entity
EditBlocksOf(e) ==
    UNION {{[e |-> e.out[j][2].entityId, block |-> e.out[j][2].comps[i]] :
               i \in 1..Len(e.out[j][2].comps)} :
           j \in {x \in 1..Len(e.out) : e.out[x][2].kind = "EditAttributes"}}

\* C36: for every EditAttributes block a pass sends, in either layout, the pairs the
\* decoder applies in a component with the sender's attribute list are exactly the
\* dirty existing attributes with their values, holes and any number of dirty
\* attributes included
C36_EditRoundTrip ==
    [][ev'.op = "Update" =>
          \A x \in EditBlocksOf(ev') :
              LET comp == scene[ev'.p][x.e].comps[x.block.compId]
              IN Decoded(comp, x.block) =
                    {<<i, comp.attrs[i]>> : i \in DirtyExisting(ev'.p, x.e, x.block.compId)}]_vars

-----------------------------------------------------------------------------
(* Protocol versions: client c1 logs in over kNet or not, with any of the  *)
(* four protocol versions; the applications describe component types,      *)
(* create and parent entities and move a rigid body.                       *)

ProtocolVersions == ProtocolOriginal..ProtocolWebClientRigidBodyMessage

GateInit == InitAll /\ prioritizer = FALSE

GateStart == scene[Server] = EmptyMap /\ SyncedStart(RestScene(0), 1, <<>>)

\* c1 logs in before the server's application changes the scene
GateConnect ==
    /\ scene[Server] = RestScene(0)
    /\ \E proto \in ProtocolVersions : \E knet \in BOOLEAN : Connect("c1", proto, knet)

\* either application describes a type; the server's creates an entity, parents it and
\* moves the body
GateOps(p) ==
    {OpRegisterType(x[1], x[2]) : x \in {y \in AppTypes(p) : y[2] = Replicate}}
    \cup (IF IsServer(p)
          THEN {OpSetParent(2, parent, Replicate) : parent \in 0..1}
               \cup {OpCreateEntity(FALSE, Replicate),
                     OpSetAttribute(1, 1, 0, FarPos, Replicate)}
          ELSE {})

\* an application calls its scene once the server's scene is built and nothing is in
\* flight
GateLocal ==
    /\ scene[Server] # EmptyMap
    /\ \A l \in Links : net[l] = <<>>
    /\ \E p \in {Server, "c1"} : \E op \in GateOps(p) :
          /\ p \in Clients => conn[p].connected
          /\ op.kind = "CreateEntity" => Cardinality(DOMAIN scene[p]) < 2
          /\ op.kind = "RegisterType" => op.t \notin types[p].placeholders
          /\ Local(p, op, FALSE)

GateServerUpdate == Update(Server, FALSE)
GateClientUpdate == Update("c1", FALSE)
GateToClient == Deliver(Server, "c1", FALSE)
GateToServer == Deliver("c1", Server, FALSE)

GateNext ==
    \/ GateStart
    \/ GateConnect
    \/ GateLocal
    \/ GateServerUpdate
    \/ GateClientUpdate
    \/ GateToClient
    \/ GateToServer

SpecGate == GateInit /\ [][GateNext]_vars

\* the messages in flight on client c's connection, in either direction
InFlight(c) == SeqRange(net[<<Server, c>>]) \cup SeqRange(net[<<c, Server>>])

\* C37: no RegisterComponentType is sent on a connection whose protocol version is below
\* ProtocolCustomComponents; no SetEntityParent is sent, and no CreateEntity has a parent
\* field, on one below ProtocolHierarchicScene; no RigidBodyUpdate is sent on a connection
\* below ProtocolWebClientRigidBodyMessage that is not a kNet connection
C37_ProtocolGates ==
    \A c \in Clients : \A m \in InFlight(c) :
        /\ conn[c].protocolVersion < ProtocolCustomComponents =>
              m.kind # "RegisterComponentType"
        /\ conn[c].protocolVersion < ProtocolHierarchicScene =>
              /\ m.kind # "SetEntityParent"
              /\ m.kind = "CreateEntity" => ~m.hasParentField
        /\ (~conn[c].kNet /\ conn[c].protocolVersion < ProtocolWebClientRigidBodyMessage) =>
              m.kind # "RigidBodyUpdate"

\* on a connection of the original protocol that is not kNet, the server has sent a
\* CreateEntity without parent field for an entity that has a parent, while a type is
\* described and the body has moved
C37_Witness ==
    /\ conn["c1"].connected /\ ~conn["c1"].kNet
    /\ conn["c1"].protocolVersion = ProtocolOriginal
    /\ types[Server].placeholders # {}
    /\ HasEntity(scene[Server], 2) /\ scene[Server][2].parent = 1
    /\ scene[Server][1].comps[1].attrs[0] = FarPos
    /\ \E m \in SeqRange(net[<<Server, "c1">>]) :
          m.kind = "CreateEntity" /\ m.entityId = 2 /\ ~m.hasParentField
    /\ \E m \in SeqRange(net[<<Server, "c1">>]) : m.kind = "EditAttributes"

-----------------------------------------------------------------------------
(* Replies: client c1 creates entities and components under unacked ids in *)
(* a scene the server left empty, and goes on changing them before and     *)
(* after the server's replies arrive.  The server's ids follow the         *)
(* client's in step, so a masked unacked id names no other entity.         *)

ReplyEnts == 2
ReplyComps == 1

ReplyInit == InitAll /\ prioritizer = FALSE

ReplyStart == SyncedStart(EmptyMap, 0, <<"c1">>)

\* the first entity created gets the components and the attribute changes, the second
\* the parent and the temporary flag
ReplyOps ==
    {OpCreateEntity(FALSE, Replicate) : x \in {y \in {0} : gen["c1"].u < ReplyEnts}}
    \cup {OpCreateComponent(e, 1, FALSE, Replicate) :
            e \in {x \in EntityIds("c1") : /\ MaskId(x) = 1
                                           /\ scene["c1"][x].genU < ReplyComps}}
    \cup UNION {{OpSetAttribute(e, c, 0, v, Replicate) :
                    c \in DOMAIN scene["c1"][e].comps, v \in Values \ {0}} :
                e \in {x \in EntityIds("c1") : MaskId(x) = 1}}
    \cup UNION {{OpSetTemporary(e, TRUE, Replicate)}
                \cup {OpSetParent(e, v, Replicate) :
                        v \in {x \in EntityIds("c1") : MaskId(x) = 1}} :
                e \in {x \in EntityIds("c1") : MaskId(x) = 2}}

ReplyLocal == conn["c1"].connected /\ \E op \in ReplyOps : Local("c1", op, FALSE)
ReplyClientUpdate == Update("c1", TRUE)
ReplyToServer == Deliver("c1", Server, FALSE)
ReplyServerUpdate == net[<<"c1", Server>>] = <<>> /\ Update(Server, FALSE)
ReplyToClient == Deliver(Server, "c1", TRUE)

ReplyNext ==
    \/ ReplyStart
    \/ ReplyLocal
    \/ ReplyClientUpdate
    \/ ReplyToServer
    \/ ReplyServerUpdate
    \/ ReplyToClient

SpecReply == ReplyInit /\ [][ReplyNext]_vars

ReplyLink == <<Server, "c1">>

\* the reply that c1 handles in this step
TheReply == Head(net[ReplyLink])

EntityReplyHandled ==
    /\ net[ReplyLink] # <<>> /\ TheReply.kind = "CreateEntityReply"
    /\ net'[ReplyLink] = Tail(net[ReplyLink])

ComponentsReplyHandled ==
    /\ net[ReplyLink] # <<>> /\ TheReply.kind = "CreateComponentsReply"
    /\ net'[ReplyLink] = Tail(net[ReplyLink])

\* every entry of the connection's dirty queue, and of each entity's component dirty
\* queue, has its record in the sync state s
QueuesReferToRecords(s) ==
    /\ \A e \in SeqRange(s.dirtyQueue) : e \in DOMAIN s.entities
    /\ \A e \in DOMAIN s.entities :
          \A c \in SeqRange(s.entities[e].dirtyQueue) : c \in DOMAIN s.entities[e].components

\* the sync state s holds the entity of reply m under its new id only, and the
\* components the reply renumbers under their new ids only
RekeyedBy(s, m) ==
    /\ m.kind = "CreateEntityReply" => OrUnacked(m.senderEntityId) \notin DOMAIN s.entities
    /\ m.entityId \in DOMAIN s.entities
    /\ \A j \in 1..Len(m.rewrites) :
          /\ OrUnacked(m.rewrites[j][1]) \notin DOMAIN s.entities[m.entityId].components
          /\ m.rewrites[j][2] \in DOMAIN s.entities[m.entityId].components

\* C38: when c1 has handled a CreateEntityReply or CreateComponentsReply, its sync state
\* for the server has no entry under the old unacked entity or component ids, has the
\* entries under the new ids, and no dirty queue of it names a record that is not there
C38_ReplyRekeysSyncState ==
    [][EntityReplyHandled \/ ComponentsReplyHandled =>
          /\ RekeyedBy(st'["c1"][Server], TheReply)
          /\ QueuesReferToRecords(st'["c1"][Server])]_vars

\* the same for a reply whose entity c1 still has, with the queues left aside
C38_Rekeyed ==
    [][(EntityReplyHandled \/ ComponentsReplyHandled)
          /\ HasEntity(scene'["c1"], TheReply.entityId) =>
          RekeyedBy(st'["c1"][Server], TheReply)]_vars

\* the kinds of message that describe a change to an entity that the receiver has
EntityChangeKinds ==
    {"CreateComponents", "RemoveComponents", "CreateAttributes", "RemoveAttributes",
     "EditAttributes", "EditEntityProperties", "SetEntityParent"}

\* the component ids that a message about the attributes of an entity names
CompIdsOf(m) ==
    IF m.kind = "EditAttributes" THEN {m.comps[j].compId : j \in 1..Len(m.comps)}
    ELSE IF m.kind \in {"CreateAttributes", "RemoveAttributes"}
    THEN {m.attrs[j].compId : j \in 1..Len(m.attrs)}
    ELSE {}

\* a step that is a sync pass of c1
ClientPass == ev'.op = "Update" /\ ev'.p = "c1"

\* the messages that pass sends to the server
PassSends == SeqRange(MessagesTo(ev'.out, Server))

\* a pass of c1 sends a change message only for an entity that c1 holds under the
\* server's id, and an attribute message only for components under the server's ids
NothingWhileUnacked ==
    ClientPass =>
        \A m \in PassSends : m.kind \in EntityChangeKinds =>
            /\ ~IsUnackedId(m.entityId) /\ HasEntity(scene["c1"], m.entityId)
            /\ \A c \in CompIdsOf(m) : HasComp(scene["c1"], m.entityId, c)

\* a pass of c1 sends, for every entity it holds under the server's id, the temporary
\* flag and the parent that are marked as changed, and the attributes marked dirty of
\* every component under the server's id
ChangesSentOnceAcked ==
    ClientPass =>
        \A e \in DOMAIN scene["c1"] \cap DOMAIN st["c1"][Server].entities :
            ~IsUnackedId(e) =>
                /\ st["c1"][Server].entities[e].hasPropertyChanges =>
                      \E m \in PassSends : /\ m.kind = "EditEntityProperties" /\ m.entityId = e
                                           /\ m.temporary = scene["c1"][e].temporary
                /\ st["c1"][Server].entities[e].hasParentChange =>
                      \E m \in PassSends : m.kind = "SetEntityParent" /\ m.entityId = e
                /\ \A c \in DOMAIN scene["c1"][e].comps
                            \cap DOMAIN st["c1"][Server].entities[e].components :
                      (/\ ~IsUnackedId(c)
                       /\ st["c1"][Server].entities[e].components[c].dirtyAttributes # {}) =>
                          \E m \in PassSends : /\ m.kind = "EditAttributes" /\ m.entityId = e
                                               /\ c \in CompIdsOf(m)

\* C39: c1 sends no component, attribute, property or parent message for an entity or
\* component whose id is unacked, apart from its creation; what c1 changed while the id
\* was unacked is sent by a pass after the reply, with no further change needed
C39_UnackedChangesDeferred ==
    [][NothingWhileUnacked /\ ChangesSentOnceAcked]_vars

\* the first half alone
C39_NothingWhileUnacked == [][NothingWhileUnacked]_vars

-----------------------------------------------------------------------------
(* Crossing edits: the server and the clients c1 and c2 each set attribute *)
(* 0 of component 1 of entity 1 to a value of their own while the          *)
(* connections are idle, so that the EditAttributes messages of their next *)
(* passes cross.                                                           *)

CrossInit == InitAll /\ prioritizer = FALSE

CrossStart == SyncedStart(IdsScene, 1, ClientSeq)

\* the value each peer writes
CrossValue(p) == IF IsServer(p) THEN 1 ELSE IF p = "c1" THEN 2 ELSE 3

CrossLocal ==
    /\ \A c \in Clients : conn[c].connected
    /\ \A l \in Links : net[l] = <<>>
    /\ \E p \in Peers : Local(p, OpSetAttribute(1, 1, 0, CrossValue(p), Replicate), FALSE)
CrossServerUpdate == Update(Server, FALSE)
CrossClientUpdate == \E c \in Clients : Update(c, FALSE)
CrossToClient == \E c \in Clients : Deliver(Server, c, FALSE)
CrossToServer == \E c \in Clients : Deliver(c, Server, FALSE)

CrossNext ==
    \/ CrossStart
    \/ CrossLocal
    \/ CrossServerUpdate
    \/ CrossClientUpdate
    \/ CrossToClient
    \/ CrossToServer

SpecCross == CrossInit /\ [][CrossNext]_vars

\* no message is in flight and no pass of any peer has anything left to send
AllQuiet ==
    /\ \A c \in Clients : conn[c].connected
    /\ \A l \in Links : net[l] = <<>>
    /\ \A c \in Clients : st[Server][c].dirtyQueue = <<>> /\ st[c][Server].dirtyQueue = <<>>

\* the value peer p holds for the attribute
Held(p) == scene[p][1].comps[1].attrs[0]

\* C40: once the crossing EditAttributes messages are delivered and the passes that
\* follow have run, the server and every client hold the same value for the attribute
C40_CrossingEditsConverge ==
    AllQuiet => \A c \in Clients : Held(c) = Held(Server)

====
